---- MODULE Spec2Model ----
(***************************************************************************)
(* QuickTerm (my-terminal/src/App.tsx): the session-state emulation and    *)
(* smart-navigation logic of the terminal component.                       *)
(*                                                                         *)
(* Strings of the program are sequences of one-character strings, so that  *)
(* trim, split, startsWith, substring and the regular-expression tests are *)
(* computed as the code computes them.  Every executeCommand call is a     *)
(* coroutine that keeps the values of the render it was created in (its    *)
(* closure) and advances from one await to the next in one atomic step.    *)
(***************************************************************************)
EXTENDS Integers, Sequences, FiniteSets, TLC

(* ------------------------------ bounds -------------------------------- *)
\* number of Enter key presses explored when submissions may overlap
MaxSubmit == 2
\* number of Enter key presses explored when lines are processed one at a time
MaxSeqSubmit == 3
\* number of Enter key presses explored for the alias table
MaxAliasSubmit == 2
\* number of Enter key presses explored for the ways home
MaxHomeSubmit == 2
\* number of Enter key presses explored with the history keys
MaxKeySubmit == 2
\* number of Enter key presses explored on stored histories
MaxHistSubmit == 2
\* submissions per run and runs of the application, for the sessions that are
\* closed and started again
MaxRestartSubmit == 2
MaxRun == 2
\* number of Enter key presses explored on built-ins, shortcuts and the screen
MaxBuiltinSubmit == 2
\* number of Enter key presses explored when the end of every call is followed
MaxLiveSubmit == 2

(* ----------------------------- characters ----------------------------- *)
LowerLetters == {"a", "b", "c", "d", "e", "f", "g", "h", "i", "j", "k", "l", "m", "n", "o", "p", "q", "r", "s", "t", "u", "v", "w", "x", "y", "z"}
UpperLetters == {"A", "B", "C", "D", "E", "F", "G", "H", "I", "J", "K", "L", "M", "N", "O", "P", "Q", "R", "S", "T", "U", "V", "W", "X", "Y", "Z"}
Digits == {"0", "1", "2", "3", "4", "5", "6", "7", "8", "9"}
\* the character class [a-zA-Z0-9_.-] of isDirPattern
DirPatternChars == LowerLetters \cup UpperLetters \cup Digits \cup {"_", ".", "-"}

(* --------------------------- string library --------------------------- *)
\* the white space that String.prototype.trim removes
Whitespace == {" ", "\n", "\t"}

\* the value of body for the value of e, with e worked out once
Let(e, body(_)) == CHOOSE r \in {body(x) : x \in {e}} : TRUE

RECURSIVE trimStart(_)
trimStart(s) ==
    IF s # <<>> /\ Head(s) \in Whitespace THEN Let(Tail(s), LAMBDA rest : trimStart(rest)) ELSE s

RECURSIVE trimEnd(_)
trimEnd(s) ==
    IF s # <<>> /\ s[Len(s)] \in Whitespace
    THEN Let(SubSeq(s, 1, Len(s) - 1), LAMBDA rest : trimEnd(rest))
    ELSE s

\* String.prototype.trim
trim(s) == Let(s, LAMBDA str : Let(trimStart(str), LAMBDA rest : trimEnd(rest)))

\* String.prototype.startsWith
startsWith(s, p) == Len(s) >= Len(p) /\ SubSeq(s, 1, Len(p)) = p

\* String.prototype.substring(n), n counted from 0
substring(s, n) == IF n >= Len(s) THEN <<>> ELSE SubSeq(s, n + 1, Len(s))

RECURSIVE splitFrom(_, _, _)
splitFrom(s, sep, acc) ==
    IF s = <<>> THEN <<acc>>
    ELSE IF Head(s) = sep THEN <<acc>> \o splitFrom(Tail(s), sep, <<>>)
    ELSE splitFrom(Tail(s), sep, Append(acc, Head(s)))

\* String.prototype.split(sep) for a one-character separator
split(s, sep) == splitFrom(s, sep, <<>>)

RECURSIVE join(_, _)
\* Array.prototype.join(sep)
join(parts, sep) ==
    IF parts = <<>> THEN <<>>
    ELSE IF Len(parts) = 1 THEN parts[1]
    ELSE parts[1] \o sep \o join(Tail(parts), sep)

\* /^[a-zA-Z0-9_.-]+$/.test(s)
isDirPatternMatch(s) == s # <<>> /\ \A i \in 1..Len(s) : s[i] \in DirPatternChars

\* /^[a-zA-Z]:\\/.test(s)
isDriveLetterPath(s) ==
    Len(s) >= 3 /\ s[1] \in (LowerLetters \cup UpperLetters) /\ s[2] = ":" /\ s[3] = "\\"

toLowerChar(c) ==
    IF c \in UpperLetters
    THEN CHOOSE l \in LowerLetters :
           \E i \in 1..26 : <<"A", "B", "C", "D", "E", "F", "G", "H", "I", "J", "K", "L", "M", "N", "O", "P", "Q", "R", "S", "T", "U", "V", "W", "X", "Y", "Z">>[i] = c /\ <<"a", "b", "c", "d", "e", "f", "g", "h", "i", "j", "k", "l", "m", "n", "o", "p", "q", "r", "s", "t", "u", "v", "w", "x", "y", "z">>[i] = l
    ELSE c

\* String.prototype.toLowerCase
toLowerCase(s) == [i \in 1..Len(s) |-> toLowerChar(s[i])]

\* decimal digits of a natural number (String(n))
RECURSIVE NatToStr(_)
NatToStr(n) ==
    LET d == <<"0", "1", "2", "3", "4", "5", "6", "7", "8", "9">>[(n % 10) + 1]
    IN IF n < 10 THEN <<d>> ELSE Append(NatToStr(n \div 10), d)

(* ------------------------------ literals ------------------------------ *)
s_cd == <<"c", "d">>
s_cd_sp == <<"c", "d", " ">>
s_tilde == <<"~">>
s_dash == <<"-">>
s_dot == <<".">>
s_dotdot == <<".", ".">>
s_clear == <<"c", "l", "e", "a", "r">>
s_stats == <<"s", "t", "a", "t", "s">>
s_performance == <<"p", "e", "r", "f", "o", "r", "m", "a", "n", "c", "e">>
s_logs == <<"l", "o", "g", "s">>
s_export_logs == <<"e", "x", "p", "o", "r", "t", " ", "l", "o", "g", "s">>
s_export_dash_logs == <<"e", "x", "p", "o", "r", "t", "-", "l", "o", "g", "s">>
s_history == <<"h", "i", "s", "t", "o", "r", "y">>
s_pwd == <<"p", "w", "d">>
s_HOME == <<"$", "H", "O", "M", "E">>
s_git_branch == <<"g", "i", "t", " ", "b", "r", "a", "n", "c", "h", " ", "-", "-", "s", "h", "o", "w", "-", "c", "u", "r", "r", "e", "n", "t", " ", "2", ">", "/", "d", "e", "v", "/", "n", "u", "l", "l">>
s_space == <<" ">>
s_slash == <<"/">>
s_newline == <<"\n">>
s_oldpwd_not_set == <<"c", "d", ":", " ", "O", "L", "D", "P", "W", "D", " ", "n", "o", "t", " ", "s", "e", "t">>
s_cd_colon == <<"c", "d", ":", " ">>
s_no_such == <<":", " ", "N", "o", " ", "s", "u", "c", "h", " ", "f", "i", "l", "e", " ", "o", "r", " ", "d", "i", "r", "e", "c", "t", "o", "r", "y">>
s_exported == <<"E", "x", "p", "o", "r", "t", "e", "d", " ">>
s_logs_suffix == <<" ", "l", "o", "g", "s">>
s_export_failed == <<"F", "a", "i", "l", "e", "d", " ", "t", "o", " ", "e", "x", "p", "o", "r", "t", " ", "l", "o", "g", "s">>
s_total_commands == <<"T", "o", "t", "a", "l", " ", "C", "o", "m", "m", "a", "n", "d", "s", ":", " ">>
s_home == <<"h", "o", "m", "e">>
s_Users == <<"U", "s", "e", "r", "s">>

(* ------------------------------ aliases ------------------------------- *)
aliases_threeDotsOneLevel ==
    <<"l", "l">> :> <<"l", "s", " ", "-", "l", "a">> @@
    <<"l", "a">> :> <<"l", "s", " ", "-", "l", "a">> @@
    <<"l">> :> <<"l", "s", " ", "-", "l", "h">> @@
    <<"l", "s">> :> <<"l", "s", " ", "-", "-", "c", "o", "l", "o", "r", "=", "a", "u", "t", "o">> @@
    <<".", ".">> :> <<"c", "d", " ", ".", ".">> @@
    <<".", ".", ".">> :> <<"c", "d", " ", ".", ".">> @@
    <<".", ".", ".", ".">> :> <<"c", "d", " ", ".", ".", "/", ".", ".", "/", ".", ".">> @@
    <<"~">> :> <<"c", "d", " ", "~">> @@
    <<"-">> :> <<"c", "d", " ", "-">> @@
    <<"m", "d">> :> <<"m", "k", "d", "i", "r">> @@
    <<"r", "d">> :> <<"r", "m", "d", "i", "r">> @@
    <<"c", "l", "s">> :> <<"c", "l", "e", "a", "r">> @@
    <<"c">> :> <<"c", "l", "e", "a", "r">> @@
    <<"g", "s">> :> <<"g", "i", "t", " ", "s", "t", "a", "t", "u", "s">> @@
    <<"g", "a">> :> <<"g", "i", "t", " ", "a", "d", "d">> @@
    <<"g", "c">> :> <<"g", "i", "t", " ", "c", "o", "m", "m", "i", "t">> @@
    <<"g", "p">> :> <<"g", "i", "t", " ", "p", "u", "s", "h">> @@
    <<"g", "l">> :> <<"g", "i", "t", " ", "l", "o", "g">>

\* the alias table of executeCommand
aliases ==
    <<"l", "l">> :> <<"l", "s", " ", "-", "l", "a">> @@
    <<"l", "a">> :> <<"l", "s", " ", "-", "l", "a">> @@
    <<"l">> :> <<"l", "s", " ", "-", "l", "h">> @@
    <<"l", "s">> :> <<"l", "s", " ", "-", "-", "c", "o", "l", "o", "r", "=", "a", "u", "t", "o">> @@
    <<".", ".">> :> <<"c", "d", " ", ".", ".">> @@
    <<".", ".", ".">> :> <<"c", "d", " ", ".", ".", "/", ".", ".">> @@
    <<".", ".", ".", ".">> :> <<"c", "d", " ", ".", ".", "/", ".", ".", "/", ".", ".">> @@
    <<"~">> :> <<"c", "d", " ", "~">> @@
    <<"-">> :> <<"c", "d", " ", "-">> @@
    <<"m", "d">> :> <<"m", "k", "d", "i", "r">> @@
    <<"r", "d">> :> <<"r", "m", "d", "i", "r">> @@
    <<"c", "l", "s">> :> <<"c", "l", "e", "a", "r">> @@
    <<"c">> :> <<"c", "l", "e", "a", "r">> @@
    <<"g", "s">> :> <<"g", "i", "t", " ", "s", "t", "a", "t", "u", "s">> @@
    <<"g", "a">> :> <<"g", "i", "t", " ", "a", "d", "d">> @@
    <<"g", "c">> :> <<"g", "i", "t", " ", "c", "o", "m", "m", "i", "t">> @@
    <<"g", "p">> :> <<"g", "i", "t", " ", "p", "u", "s", "h">> @@
    <<"g", "l">> :> <<"g", "i", "t", " ", "l", "o", "g">>

\* String(f) of a built-in function f, as Array.prototype.join renders it
nativeCode(name) ==
    <<"f", "u", "n", "c", "t", "i", "o", "n", " ">> \o name \o
    <<"(", ")", " ", "{", " ", "[", "n", "a", "t", "i", "v", "e", " ", "c", "o", "d", "e", "]", " ", "}">>

\* `aliases` is an object literal: a lookup of a name that is not one of its keys
\* goes on to Object.prototype.  The names every object inherits, with the text
\* join(' ') makes of what the lookup finds.
objectPrototype ==
    <<"c", "o", "n", "s", "t", "r", "u", "c", "t", "o", "r">> :> nativeCode(<<"O", "b", "j", "e", "c", "t">>) @@
    <<"t", "o", "S", "t", "r", "i", "n", "g">> :> nativeCode(<<"t", "o", "S", "t", "r", "i", "n", "g">>) @@
    <<"v", "a", "l", "u", "e", "O", "f">> :> nativeCode(<<"v", "a", "l", "u", "e", "O", "f">>) @@
    <<"h", "a", "s", "O", "w", "n", "P", "r", "o", "p", "e", "r", "t", "y">> :> nativeCode(<<"h", "a", "s", "O", "w", "n", "P", "r", "o", "p", "e", "r", "t", "y">>) @@
    <<"_", "_", "p", "r", "o", "t", "o", "_", "_">> :> <<"[", "o", "b", "j", "e", "c", "t", " ", "O", "b", "j", "e", "c", "t", "]">>

\* aliases[baseCmd] is truthy
hasAlias(tok) == tok \in DOMAIN aliases \/ tok \in DOMAIN objectPrototype

\* what cmdParts[0] = aliases[baseCmd] contributes to the joined line
aliasText(tok) == IF tok \in DOMAIN aliases THEN aliases[tok] ELSE objectPrototype[tok]

expandAlias_wholeLineOnly(trimmedCmd) ==
    IF hasAlias(trimmedCmd) THEN aliasText(trimmedCmd) ELSE trimmedCmd

\* "展开别名": only the first space-delimited part is looked up, once
expandAlias(trimmedCmd) ==
    LET cmdParts == split(trimmedCmd, " ")
        baseCmd == cmdParts[1]
    IN IF hasAlias(baseCmd)
       THEN join([cmdParts EXCEPT ![1] = aliasText(baseCmd)], s_space)
       ELSE trimmedCmd

(* --------------------------- directory icons -------------------------- *)
iconMap ==
    <<"d", "e", "s", "k", "t", "o", "p">> :> "DESKTOP" @@
    <<"d", "o", "c", "u", "m", "e", "n", "t", "s">> :> "PAGE" @@
    <<"d", "o", "w", "n", "l", "o", "a", "d", "s">> :> "DOWN_ARROW" @@
    <<"p", "i", "c", "t", "u", "r", "e", "s">> :> "FRAMED_PICTURE" @@
    <<"p", "h", "o", "t", "o", "s">> :> "CAMERA" @@
    <<"m", "u", "s", "i", "c">> :> "MUSICAL_NOTE" @@
    <<"m", "o", "v", "i", "e", "s">> :> "CLAPPER" @@
    <<"v", "i", "d", "e", "o", "s">> :> "MOVIE_CAMERA" @@
    <<"a", "p", "p", "l", "i", "c", "a", "t", "i", "o", "n", "s">> :> "PACKAGE" @@
    <<"l", "i", "b", "r", "a", "r", "y">> :> "BOOKS" @@
    <<"p", "u", "b", "l", "i", "c">> :> "GLOBE" @@
    <<"p", "r", "o", "j", "e", "c", "t", "s">> :> "BRIEFCASE" @@
    <<"p", "r", "o", "j", "e", "c", "t">> :> "BRIEFCASE" @@
    <<"c", "o", "d", "e">> :> "LAPTOP" @@
    <<"s", "r", "c">> :> "OPEN_FOLDER" @@
    <<"s", "o", "u", "r", "c", "e">> :> "OPEN_FOLDER" @@
    <<"n", "o", "d", "e", "_", "m", "o", "d", "u", "l", "e", "s">> :> "PACKAGE" @@
    <<"d", "i", "s", "t">> :> "OUTBOX" @@
    <<"b", "u", "i", "l", "d">> :> "HAMMER" @@
    <<".", "g", "i", "t">> :> "HERB" @@
    <<"c", "o", "n", "f", "i", "g">> :> "GEAR" @@
    <<"b", "i", "n">> :> "WRENCH" @@
    <<"t", "r", "a", "s", "h">> :> "WASTEBASKET" @@
    <<"a", "r", "c", "h", "i", "v", "e">> :> "PACKAGE" @@
    <<"t", "e", "m", "p">> :> "HOURGLASS" @@
    <<"b", "a", "c", "k", "u", "p">> :> "FLOPPY"

\* path.replace(/\\/g, '/')
replaceBackslashes(s) == [i \in 1..Len(s) |-> IF s[i] = "\\" THEN "/" ELSE s[i]]

\* split('/').filter(Boolean)
pathParts(path) == SelectSeq(split(path, "/"), LAMBDA p : p # <<>>)

\* normalizedPath.match(/^(\/Users\/[^\/]+|\/home\/[^\/]+|C:\/Users\/[^\/]+)/): the
\* matched prefix, or the empty string when there is no match
homeMatch(normalizedPath) ==
    LET raw == split(normalizedPath, "/")
    IN IF /\ Len(raw) >= 3
          /\ raw[3] # <<>>
          /\ \/ raw[1] = <<>> /\ raw[2] \in {s_Users, s_home}
             \/ raw[1] = <<"C", ":">> /\ raw[2] = s_Users
       THEN join(SubSeq(raw, 1, 3), s_slash)
       ELSE <<>>

getDirectoryIcon(path) ==
    IF path = <<>> THEN "HOUSE"
    ELSE Let(replaceBackslashes(path), LAMBDA normalizedPath :
         Let(pathParts(normalizedPath), LAMBDA parts :
         Let(IF parts = <<>> THEN <<>> ELSE toLowerCase(parts[Len(parts)]), LAMBDA dirName :
         Let(homeMatch(normalizedPath), LAMBDA hm :
             IF hm # <<>> /\ normalizedPath = hm THEN "HOUSE"
             ELSE IF dirName \in DOMAIN iconMap THEN iconMap[dirName]
             ELSE "FOLDER"))))

\* the prompt label `${icon} ${dirName}`, kept as its two parts
getDisplayPath(path) ==
    IF path = <<>> THEN [icon |-> "HOUSE", name |-> s_tilde]
    ELSE Let(replaceBackslashes(path), LAMBDA normalizedPath :
         Let(homeMatch(normalizedPath), LAMBDA homeDir :
         Let(getDirectoryIcon(normalizedPath), LAMBDA icon :
         Let(pathParts(normalizedPath), LAMBDA parts :
         Let(IF parts = <<>> THEN s_slash ELSE parts[Len(parts)], LAMBDA dirName :
             IF homeDir # <<>> /\ normalizedPath = homeDir
             THEN [icon |-> icon, name |-> s_tilde]
             ELSE [icon |-> icon, name |-> dirName])))))

(* ------------------------------ stripAnsi ----------------------------- *)
\* "ESC" stands for the character 0x1B and "BEL" for 0x07
RECURSIVE skipWhile(_, _)
skipWhile(s, class) == IF s # <<>> /\ Head(s) \in class THEN skipWhile(Tail(s), class) ELSE s

RECURSIVE skipUntilBel(_)
skipUntilBel(s) == IF s = <<>> THEN <<>> ELSE IF Head(s) = "BEL" THEN s ELSE skipUntilBel(Tail(s))

\* the text after a CSI sequence ESC [ ?-opt [0-9;]* letter starting at s, or s itself
afterCsi(s) ==
    IF Len(s) >= 2 /\ s[1] = "ESC" /\ s[2] = "["
    THEN LET r0 == substring(s, 2)
             r1 == IF r0 # <<>> /\ Head(r0) = "?" THEN Tail(r0) ELSE r0
             r2 == skipWhile(r1, Digits \cup {";"})
             \* the first pattern does not take '?'; both end in a letter
             q2 == skipWhile(r0, Digits \cup {";"})
         IN IF q2 # <<>> /\ Head(q2) \in {"J", "K", "m", "s", "u"} THEN Tail(q2)
            ELSE IF r2 # <<>> /\ Head(r2) \in (LowerLetters \cup UpperLetters) THEN Tail(r2)
            ELSE s
    ELSE s

\* the text after an OSC sequence ESC ] digit ; ... BEL starting at s, or s itself
afterOsc(s) ==
    IF Len(s) >= 4 /\ s[1] = "ESC" /\ s[2] = "]" /\ s[3] \in Digits /\ s[4] = ";"
    THEN LET r == skipUntilBel(substring(s, 4))
         IN IF r # <<>> THEN Tail(r) ELSE s
    ELSE s

RECURSIVE stripCsi(_)
stripCsi(s) ==
    IF s = <<>> THEN <<>>
    ELSE Let(afterCsi(s), LAMBDA rest :
             IF rest # s THEN stripCsi(rest)
             ELSE Let(Tail(s), LAMBDA tail : <<Head(s)>> \o stripCsi(tail)))

RECURSIVE stripOsc(_)
stripOsc(s) ==
    IF s = <<>> THEN <<>>
    ELSE Let(afterOsc(s), LAMBDA rest :
             IF rest # s THEN stripOsc(rest)
             ELSE Let(Tail(s), LAMBDA tail : <<Head(s)>> \o stripOsc(tail)))

stripAnsi(str) ==
    Let(str, LAMBDA s : Let(stripCsi(s), LAMBDA withoutCsi : stripOsc(withoutCsi)))

(* ----------------- the machine behind the Command Executor ------------ *)
\* A directory is the list of its names from the root.
n_home == <<"h", "o", "m", "e">>
n_u == <<"u">>
n_src == <<"s", "r", "c">>
n_logs == <<"l", "o", "g", "s">>
n_c == <<"c">>
n_tmp == <<"t", "m", "p">>

HomeNames == <<n_home, n_u>>

\* a machine whose home directory exists, with a git work tree in ~/src
FsHome ==
    { <<>>, <<n_home>>, <<n_home, n_u>>, <<n_home, n_u, n_src>>,
      <<n_home, n_u, n_src, n_logs>>, <<n_home, n_u, n_c>>, <<n_tmp>> }

\* a machine whose $HOME does not name a directory
FsNoHome == { <<>>, <<n_tmp>> }

FileSystems == {FsHome, FsNoHome}

\* the working directory of the application process
ProcessCwd == <<>>

\* what pwd prints for a directory
RECURSIVE PathStr(_)
PathStr(names) ==
    IF names = <<>> THEN s_slash
    ELSE IF Len(names) = 1 THEN s_slash \o names[1]
    ELSE PathStr(SubSeq(names, 1, Len(names) - 1)) \o s_slash \o names[Len(names)]

Failure == [ok |-> FALSE, dir |-> <<>>]

RECURSIVE Walk(_, _, _)
Walk(dirs, at, comps) ==
    IF at \notin dirs THEN Failure
    ELSE IF comps = <<>> THEN [ok |-> TRUE, dir |-> at]
    ELSE Let(Head(comps), LAMBDA c :
         Let(Tail(comps), LAMBDA rest :
             IF c = s_dot THEN Walk(dirs, at, rest)
             ELSE IF c = s_dotdot
             THEN Let(IF at = <<>> THEN at ELSE SubSeq(at, 1, Len(at) - 1),
                      LAMBDA parent : Walk(dirs, parent, rest))
             ELSE Let(Append(at, c), LAMBDA child : Walk(dirs, child, rest))))

\* cd "<arg>" in a shell whose working directory is cwd
ShellCd(dirs, cwd, arg) ==
    IF startsWith(arg, s_HOME)
    THEN Let(pathParts(substring(arg, Len(s_HOME))), LAMBDA comps : Walk(dirs, HomeNames, comps))
    ELSE IF startsWith(arg, s_slash)
    THEN Let(pathParts(arg), LAMBDA comps : Walk(dirs, <<>>, comps))
    ELSE Let(pathParts(arg), LAMBDA comps : Walk(dirs, cwd, comps))

RECURSIVE ShellCdChain(_, _, _)
\* cd "a" && cd "b" && ...
ShellCdChain(dirs, cwd, args) ==
    IF args = <<>> THEN [ok |-> TRUE, dir |-> cwd]
    ELSE Let(ShellCd(dirs, cwd, Head(args)), LAMBDA r :
             IF r.ok THEN Let(Tail(args), LAMBDA rest : ShellCdChain(dirs, r.dir, rest))
             ELSE Failure)

IsPrefix(p, s) == Len(p) <= Len(s) /\ SubSeq(s, 1, Len(p)) = p

\* the git work tree of the machine and its checked-out branch
GitRoot == <<n_home, n_u, n_src>>
GitBranchName == <<"m", "a", "i", "n">>

\* An executor request: the chain of cd arguments in front of the command and the
\* command itself.  Its response is [ok, text].
Request(cds, run) == [cds |-> cds, run |-> run]

\* responses to `... && pwd`
PwdResponse(dirs, req) ==
    Let(ShellCdChain(dirs, ProcessCwd, req.cds), LAMBDA r :
        IF r.ok THEN [ok |-> TRUE, text |-> PathStr(r.dir) \o s_newline]
        ELSE [ok |-> FALSE, text |-> <<>>])

\* responses to `cd "<dir>" && git branch --show-current 2>/dev/null`
GitResponse(dirs, req) ==
    Let(ShellCdChain(dirs, ProcessCwd, req.cds), LAMBDA r :
        IF r.ok /\ IsPrefix(GitRoot, r.dir)
        THEN [ok |-> TRUE, text |-> GitBranchName \o s_newline]
        ELSE [ok |-> FALSE, text |-> <<>>])

\* what an ordinary command can answer: nothing, coloured text, or a failure
CommandOutputs == { <<>>, <<"ESC", "[", "0", "m", "o", "u", "t", "\n">> }
CommandFailure == <<"e", "r", "r">>

RunResponses(dirs, req) ==
    IF ShellCdChain(dirs, ProcessCwd, req.cds).ok
    THEN {[ok |-> TRUE, text |-> t] : t \in CommandOutputs}
           \cup {[ok |-> FALSE, text |-> CommandFailure]}
    ELSE {[ok |-> FALSE, text |-> CommandFailure]}

(* ------------------------- what the user types ------------------------ *)
l_cd_nosuch == <<"c", "d", " ", "n", "o", "s", "u", "c", "h">>
l_cd_src == <<"c", "d", " ", "s", "r", "c">>
l_cd_dash == <<"c", "d", " ", "-">>
l_cd_tmp == <<"c", "d", " ", "/", "t", "m", "p">>
l_src == <<"s", "r", "c">>
l_c == <<"c">>
l_tmp == <<"t", "m", "p">>
l_dots1 == <<".">>
l_dots2 == <<".", ".">>
l_dots3 == <<".", ".", ".">>
l_dots4 == <<".", ".", ".", ".">>
l_dots5 == <<".", ".", ".", ".", ".">>

\* the texts typed while submissions may overlap
Lines == { l_cd_nosuch, l_cd_dash, l_src, l_tmp, s_logs, l_c, s_pwd }

l_quote == <<"e", "c", "h", "o", " ", "\"", "a", "\\", "\"">>

\* the texts typed in sessions that are closed and started again: a directory
\* change, and a command with characters JSON has to escape
RestartLines == { l_cd_tmp, l_quote }

\* the texts typed when lines are processed one at a time
SeqLines ==
    { l_cd_src, l_src, l_cd_dash, s_dash, l_cd_tmp,
      l_dots1, l_dots2, l_dots3, l_dots4, l_dots5 }

l_dotdot_foo == <<".", ".", " ", "f", "o", "o">>
l_tilde_foo == <<"~", " ", "f", "o", "o">>
l_ll == <<"l", "l">>
l_ll_tmp == <<"l", "l", " ", "/", "t", "m", "p">>
l_ls == <<"l", "s">>
l_toString == <<"t", "o", "S", "t", "r", "i", "n", "g">>
l_cd_tilde == <<"c", "d", " ", "~">>

\* the texts typed to exercise the alias table
AliasLines ==
    { s_dotdot, s_tilde, l_dotdot_foo, l_tilde_foo, l_ll, l_ll_tmp, l_ls, l_toString,
      s_pwd, l_src }

\* the texts typed to go home and away from it
HomeLines == { s_cd, l_cd_tilde, s_tilde, l_cd_tmp, l_src, s_pwd }

l_cls == <<"c", "l", "s">>
l_md == <<"m", "d">>

\* the texts typed on built-ins and shortcuts: the three lines that clear the
\* screen, built-in names (the machine has a directory `logs` in ~/src and a
\* directory `c` in ~), shortcuts of a cd and of a one-word command, and a
\* directory to jump into
BuiltinLines == { s_clear, l_c, l_cls, s_logs, s_history, l_dots2, l_md, l_src }

\* the texts typed when the end of every call is followed: a navigation that
\* fails, `cd -`, a directory to jump into, and an ordinary command
LiveLines == { l_cd_nosuch, l_cd_dash, l_src, s_pwd }

l_blank == <<" ", "\t">>

\* the texts typed while the history keys are used; one is white space only
KeyLines == { l_src, s_pwd, l_c, l_blank }

(* -------------------------------- state ------------------------------- *)
VARIABLES
    input,           \* useState('')            the input buffer
    output,          \* useState<TerminalLine[]> the transcript
    isLoading,       \* useState(false)         the busy flag
    currentDir,      \* useState('')
    previousDir,     \* useState('')
    gitBranch,       \* useState('')
    commandHistory,  \* useState<string[]>([])
    historyIndex,    \* useState(-1)
    tempInput,       \* useState('')
    commandLogs,     \* useState<CommandLog[]>([])
    fs,              \* the directories of the machine the executor runs on
    init,            \* the initDir() call of the mount effect
    subs,            \* the executeCommand() calls, in the order of their Enter
    storage,         \* localStorage: for each key that is set, the value whose JSON text it holds
    run              \* how many times the application has been started

vars == <<input, output, isLoading, currentDir, previousDir, gitBranch,
          commandHistory, historyIndex, tempInput, commandLogs, fs, init, subs,
          storage, run>>

sessionVars == <<currentDir, previousDir, gitBranch>>
historyVars == <<commandHistory, historyIndex, tempInput>>

\* addToHistory keeps "最近 100 条"
HistoryCap == 100
\* `logs` without a count shows the last 20
DefaultLogCount == 20
\* formatStats lists the 10 most frequent commands
TopCommands == 10

\* what localStorage can hold under 'commandHistory' when the component mounts:
\* nothing, or the list a former session saved
KeyHistories == { <<>>, <<l_cd_tmp, s_pwd, l_src>> }

\* the list saved by a session that ran the commands 1, 2, ..., n in this order
numbered(n) == [i \in 1..n |-> NatToStr(i)]

HistHistories == { <<>>, numbered(2), numbered(HistoryCap - 1), numbered(HistoryCap) }

\* the texts typed on those: the oldest, a middle and the newest stored command,
\* and three that are not stored
HistLines ==
    { NatToStr(1), NatToStr(2), NatToStr(HistoryCap), NatToStr(HistoryCap + 1),
      l_cd_tmp, l_src }

(* --------------------------- transcript lines ------------------------- *)
CommandLine(cmd, dir, branch) ==
    [type |-> "command", text |-> cmd, meta |-> [dir |-> getDisplayPath(dir), branch |-> branch]]

OutputLine(text) == [type |-> "output", text |-> text]

ErrorLine(text) == [type |-> "error", text |-> text]

BlankLine == OutputLine(<<>>)

(* ------------------------------ helpers ------------------------------- *)
\* logCommand: the record appended to commandLogs (its timestamp and duration are
\* readings of the clock and are not kept)
CommandLog(command, directory, success, outputLines) ==
    [command |-> command, directory |-> directory, success |-> success,
     outputLines |-> outputLines]

lastN_keepsAll(seq, n) == seq

\* Array.prototype.slice(-n) for n >= 0; slice(-0) is slice(0)
lastN(seq, n) ==
    IF n = 0 \/ n >= Len(seq) THEN seq ELSE SubSeq(seq, Len(seq) - n + 1, Len(seq))

addToHistory_keepsDuplicates(history, cmd) == lastN(Append(history, cmd), HistoryCap)

\* the new commandHistory of addToHistory(cmd)
addToHistory(history, cmd) ==
    LET filtered == SelectSeq(history, LAMBDA c : c # cmd)
        newHistory == Append(filtered, cmd)
    IN lastN(newHistory, HistoryCap)

\* String(i).padStart(3, ' ')
padStart3(s) ==
    IF Len(s) >= 3 THEN s
    ELSE IF Len(s) = 2 THEN s_space \o s
    ELSE s_space \o s_space \o s

\* the text of the `history` built-in
formatHistory(history) ==
    join([i \in 1..Len(history) |-> padStart3(NatToStr(i)) \o s_space \o s_space \o history[i]],
         s_newline)

\* parseInt of a decimal string: nan, or the value of its leading digits
RECURSIVE digitsValue(_, _)
digitsValue(s, acc) ==
    IF s # <<>> /\ Head(s) \in Digits
    THEN digitsValue(Tail(s),
           10 * acc + (CHOOSE d \in 0..9 :
                         <<"0", "1", "2", "3", "4", "5", "6", "7", "8", "9">>[d + 1] = Head(s)))
    ELSE acc

parseInt(str) ==
    LET s == trimStart(str)
        neg == s # <<>> /\ Head(s) = "-"
        body == IF s # <<>> /\ Head(s) \in {"-", "+"} THEN Tail(s) ELSE s
    IN IF body = <<>> \/ Head(body) \notin Digits THEN [nan |-> TRUE, val |-> 0]
       ELSE [nan |-> FALSE, val |-> IF neg THEN 0 - digitsValue(body, 0) ELSE digitsValue(body, 0)]

\* commandLogs.slice(-count)
sliceLogs(logs, count) ==
    IF count.nan \/ count.val = 0 THEN logs
    ELSE IF count.val > 0 THEN lastN(logs, count.val)
    ELSE IF 0 - count.val >= Len(logs) THEN <<>>
    ELSE SubSeq(logs, (0 - count.val) + 1, Len(logs))

\* formatLogs: one row per log, `${status} [${timeStr}] ${command} (${duration})`
\* without the two clock readings; "CHECK" and "CROSS" stand for the two marks
formatLogs(logs) ==
    join([i \in 1..Len(logs) |->
            <<IF logs[i].success THEN "CHECK" ELSE "CROSS">> \o s_space \o logs[i].command],
         s_newline)

\* calculateStats: the command count and the frequency of each first word
\* (the sums and extremes of the durations are clock readings and are not kept)
baseCmdOf(command) == split(command, " ")[1]

frequencyOf(logs, base) == Cardinality({i \in 1..Len(logs) : baseCmdOf(logs[i].command) = base})

\* the first words in the order of their first use (the key order of commandFrequency)
RECURSIVE frequencyKeys(_, _)
frequencyKeys(logs, seen) ==
    IF logs = <<>> THEN seen
    ELSE LET b == baseCmdOf(Head(logs).command)
         IN frequencyKeys(Tail(logs),
              IF \E i \in 1..Len(seen) : seen[i] = b THEN seen ELSE Append(seen, b))

\* sort((a, b) => b[1] - a[1]): most frequent first, ties in key order
RECURSIVE sortByFrequency(_, _)
sortByFrequency(logs, keys) ==
    IF keys = <<>> THEN <<>>
    ELSE LET best == CHOOSE i \in 1..Len(keys) :
                       /\ \A j \in 1..Len(keys) :
                            frequencyOf(logs, keys[j]) <= frequencyOf(logs, keys[i])
                       /\ \A j \in 1..(i - 1) :
                            frequencyOf(logs, keys[j]) < frequencyOf(logs, keys[i])
         IN <<keys[best]>> \o
            sortByFrequency(logs, SubSeq(keys, 1, best - 1) \o SubSeq(keys, best + 1, Len(keys)))

\* formatStats(calculateStats(logs)): the count line and the "Top Commands" rows
formatStats(logs) ==
    LET sorted == sortByFrequency(logs, frequencyKeys(logs, <<>>))
        top == SubSeq(sorted, 1, IF Len(sorted) < TopCommands THEN Len(sorted) ELSE TopCommands)
        rows == [i \in 1..Len(top) |->
                   s_space \o s_space \o top[i] \o <<":", " ">> \o
                   NatToStr(frequencyOf(logs, top[i])) \o <<" ", "t", "i", "m", "e", "s">>]
    IN s_total_commands \o NatToStr(Len(logs)) \o s_newline \o join(rows, s_newline)

(* ------------------------- JSON in localStorage ----------------------- *)
jsonEscape_raw(s) == s

\* JSON.stringify of a string: quotes and backslashes are escaped, control
\* characters are written as escapes
RECURSIVE jsonEscape(_)
jsonEscape(s) ==
    IF s = <<>> THEN <<>>
    ELSE LET c == Head(s)
         IN (IF c = "\"" THEN <<"\\", "\"">>
             ELSE IF c = "\\" THEN <<"\\", "\\">>
             ELSE IF c = "\n" THEN <<"\\", "n">>
             ELSE IF c = "\t" THEN <<"\\", "t">>
             ELSE IF c = "ESC" THEN <<"\\", "u", "0", "0", "1", "b">>
             ELSE IF c = "BEL" THEN <<"\\", "u", "0", "0", "0", "7">>
             ELSE <<c>>) \o jsonEscape(Tail(s))

jsonString(s) == <<"\"">> \o jsonEscape(s) \o <<"\"">>

\* the result of a parsing step: the value read and the text after it
Parsed(val, rest) == [ok |-> TRUE, val |-> val, rest |-> rest]
SyntaxError == [ok |-> FALSE, val |-> <<>>, rest |-> <<>>]

\* the text after a literal, or a syntax error
expect(text, literal) ==
    IF startsWith(text, literal) THEN Parsed(<<>>, substring(text, Len(literal)))
    ELSE SyntaxError

\* the character of a \uXXXX escape
unicodeEscape(hex) ==
    IF hex = <<"0", "0", "1", "b">> THEN <<"ESC">>
    ELSE IF hex = <<"0", "0", "0", "7">> THEN <<"BEL">>
    ELSE <<>>

\* JSON.parse of the characters of a string, after its opening quote
RECURSIVE parseChars(_, _)
parseChars(text, acc) ==
    IF text = <<>> THEN SyntaxError
    ELSE IF Head(text) = "\"" THEN Parsed(acc, Tail(text))
    ELSE IF Head(text) # "\\" THEN parseChars(Tail(text), Append(acc, Head(text)))
    ELSE IF Len(text) < 2 THEN SyntaxError
    ELSE LET e == text[2]
         IN IF e \in {"\"", "\\", "/"} THEN parseChars(substring(text, 2), Append(acc, e))
            ELSE IF e = "n" THEN parseChars(substring(text, 2), Append(acc, "\n"))
            ELSE IF e = "t" THEN parseChars(substring(text, 2), Append(acc, "\t"))
            ELSE IF e = "u" /\ Len(text) >= 6 /\ unicodeEscape(SubSeq(text, 3, 6)) # <<>>
            THEN parseChars(substring(text, 6), acc \o unicodeEscape(SubSeq(text, 3, 6)))
            ELSE SyntaxError

parseString(text) ==
    IF text # <<>> /\ Head(text) = "\"" THEN parseChars(Tail(text), <<>>) ELSE SyntaxError

\* JSON.stringify of an array whose elements are written by item
RECURSIVE jsonItems(_, _)
jsonItems(texts, sep) ==
    IF texts = <<>> THEN <<>>
    ELSE IF Len(texts) = 1 THEN texts[1]
    ELSE texts[1] \o sep \o jsonItems(Tail(texts), sep)

\* JSON.stringify(commandHistory)
stringifyHistory(history) ==
    <<"[">> \o jsonItems([i \in 1..Len(history) |-> jsonString(history[i])], <<",">>) \o <<"]">>

\* JSON.parse of the elements of an array of strings, after its opening bracket
RECURSIVE parseStrings(_, _)
parseStrings(text, acc) ==
    Let(parseString(text), LAMBDA item :
        IF ~item.ok THEN SyntaxError
        ELSE IF item.rest # <<>> /\ Head(item.rest) = ","
        THEN parseStrings(Tail(item.rest), Append(acc, item.val))
        ELSE IF item.rest = <<"]">> THEN Parsed(Append(acc, item.val), <<>>)
        ELSE SyntaxError)

\* JSON.parse(savedHistory)
parseHistory(text) ==
    IF text = <<"[", "]">> THEN Parsed(<<>>, <<>>)
    ELSE IF text # <<>> /\ Head(text) = "[" THEN parseStrings(Tail(text), <<>>)
    ELSE SyntaxError

k_command == <<"{", "\"", "c", "o", "m", "m", "a", "n", "d", "\"", ":">>
k_directory == <<",", "\"", "d", "i", "r", "e", "c", "t", "o", "r", "y", "\"", ":">>
k_success == <<",", "\"", "s", "u", "c", "c", "e", "s", "s", "\"", ":">>
k_outputLines == <<",", "\"", "o", "u", "t", "p", "u", "t", "L", "i", "n", "e", "s", "\"", ":">>
k_true == <<"t", "r", "u", "e">>
k_false == <<"f", "a", "l", "s", "e">>

\* JSON.stringify of a CommandLog (its two clock readings are not kept)
stringifyLog(log) ==
    k_command \o jsonString(log.command) \o k_directory \o jsonString(log.directory)
      \o k_success \o (IF log.success THEN k_true ELSE k_false)
      \o k_outputLines \o NatToStr(log.outputLines) \o <<"}">>

\* JSON.stringify(recentLogs)
stringifyLogs(logs) ==
    <<"[">> \o jsonItems([i \in 1..Len(logs) |-> stringifyLog(logs[i])], <<",">>) \o <<"]">>

\* the leading digits of a text
RECURSIVE leadingDigits(_)
leadingDigits(text) ==
    IF text # <<>> /\ Head(text) \in Digits THEN <<Head(text)>> \o leadingDigits(Tail(text))
    ELSE <<>>

\* JSON.parse of a member of an object whose value is a string
stringMember(text, key) ==
    IF startsWith(text, key) THEN parseString(substring(text, Len(key))) ELSE SyntaxError

\* JSON.parse of a member of an object whose value is true or false
booleanMember(text, key) ==
    Let(expect(text, key), LAMBDA k :
        IF k.ok /\ startsWith(k.rest, k_true) THEN Parsed(TRUE, substring(k.rest, Len(k_true)))
        ELSE IF k.ok /\ startsWith(k.rest, k_false)
        THEN Parsed(FALSE, substring(k.rest, Len(k_false)))
        ELSE SyntaxError)

\* JSON.parse of a member of an object whose value is a natural number
numberMember(text, key) ==
    Let(expect(text, key), LAMBDA k :
        Let(leadingDigits(k.rest), LAMBDA digits :
            IF k.ok /\ digits # <<>>
            THEN Parsed(digitsValue(digits, 0), substring(k.rest, Len(digits)))
            ELSE SyntaxError))

\* JSON.parse of one CommandLog object
parseLog(text) ==
    Let(stringMember(text, k_command), LAMBDA command :
    Let(stringMember(command.rest, k_directory), LAMBDA directory :
    Let(booleanMember(directory.rest, k_success), LAMBDA success :
    Let(numberMember(success.rest, k_outputLines), LAMBDA outputLines :
        IF command.ok /\ directory.ok /\ success.ok /\ outputLines.ok
              /\ startsWith(outputLines.rest, <<"}">>)
        THEN Parsed(CommandLog(command.val, directory.val, success.val, outputLines.val),
                    Tail(outputLines.rest))
        ELSE SyntaxError))))

\* JSON.parse of the elements of an array of CommandLog objects
RECURSIVE parseLogItems(_, _)
parseLogItems(text, acc) ==
    Let(parseLog(text), LAMBDA item :
        IF ~item.ok THEN SyntaxError
        ELSE IF item.rest # <<>> /\ Head(item.rest) = ","
        THEN parseLogItems(Tail(item.rest), Append(acc, item.val))
        ELSE IF item.rest = <<"]">> THEN Parsed(Append(acc, item.val), <<>>)
        ELSE SyntaxError)

\* JSON.parse(savedLogs)
parseLogs(text) ==
    IF text = <<"[", "]">> THEN Parsed(<<>>, <<>>)
    ELSE IF text # <<>> /\ Head(text) = "[" THEN parseLogItems(Tail(text), <<>>)
    ELSE SyntaxError

(* ----------------------------- localStorage --------------------------- *)
\* the two keys the application uses
k_history == "commandHistory"
k_logs == "commandLogs"

\* a localStorage nothing was ever saved in
emptyStorage == [k \in {} |-> <<>>]

\* localStorage.getItem(key) is not null
hasItem(st, key) == key \in DOMAIN st

\* localStorage.setItem(key, JSON.stringify(val))
setItem(st, key, val) == [k \in DOMAIN st \cup {key} |-> IF k = key THEN val ELSE st[k]]

\* saved logs are cut to "最近 1000 条"
LogStoreCap == 1000

nonEmpty_always(list) == TRUE

\* if (commandHistory.length > 0), if (commandLogs.length > 0)
nonEmpty(list) == Len(list) > 0

\* the effect on [commandHistory]
storeHistory(st, history) ==
    IF nonEmpty(history) THEN setItem(st, k_history, history) ELSE st

\* the effect on [commandLogs]
storeLogs(st, logs) ==
    IF nonEmpty(logs) THEN setItem(st, k_logs, lastN(logs, LogStoreCap)) ELSE st

\* the two effects after a render of a mounted component: each runs when its
\* list is a new one
saved(st, history, newHistory, logs, newLogs) ==
    LET a == IF newHistory # history THEN storeHistory(st, newHistory) ELSE st
    IN IF newLogs # logs THEN storeLogs(a, newLogs) ELSE a

\* what the mount effect hands to setCommandHistory: JSON.parse of the stored
\* text, or nothing when the key is not set or the text does not parse
loadedHistory(st) ==
    IF hasItem(st, k_history)
    THEN Let(parseHistory(stringifyHistory(st[k_history])),
             LAMBDA parsed : IF parsed.ok THEN parsed.val ELSE <<>>)
    ELSE <<>>

\* what the mount effect hands to setCommandLogs
loadedLogs(st) ==
    IF hasItem(st, k_logs)
    THEN Let(parseLogs(stringifyLogs(st[k_logs])),
             LAMBDA parsed : IF parsed.ok THEN parsed.val ELSE <<>>)
    ELSE <<>>

(* --------------------------- initial state ---------------------------- *)
GoHomeRequest_stay == Request(<<>>, s_pwd)

\* `cd ~ && pwd` and the bare `cd && pwd`: the shell changes into $HOME
GoHomeRequest == Request(<<s_HOME>>, s_pwd)

GitBranchRequest_home(dir) == Request(<<s_HOME>>, s_git_branch)

\* `cd "${dir}" && git branch --show-current 2>/dev/null`
GitBranchRequest(dir) == Request(<<dir>>, s_git_branch)

\* the state after the first render, with the mount effect's initDir() awaiting
\* the answer to `cd ~ && pwd`
Init ==
    /\ input = <<>>
    /\ output = <<>>
    /\ isLoading = FALSE
    /\ currentDir = <<>>
    /\ previousDir = <<>>
    /\ gitBranch = <<>>
    /\ commandHistory = <<>>
    /\ historyIndex = -1
    /\ tempInput = <<>>
    /\ commandLogs = <<>>
    /\ fs \in FileSystems
    /\ init = [pc |-> "resolve", reqs |-> <<GoHomeRequest>>]
    /\ subs = <<>>
    /\ storage = emptyStorage
    /\ run = 1

\* the same with a stored command history: the mount effect has done
\* setCommandHistory(JSON.parse(savedHistory))
InitStored(histories) ==
    /\ input = <<>>
    /\ output = <<>>
    /\ isLoading = FALSE
    /\ currentDir = <<>>
    /\ previousDir = <<>>
    /\ gitBranch = <<>>
    /\ commandHistory \in histories
    /\ historyIndex = -1
    /\ tempInput = <<>>
    /\ commandLogs = <<>>
    /\ fs \in FileSystems
    /\ init = [pc |-> "resolve", reqs |-> <<GoHomeRequest>>]
    /\ subs = <<>>
    /\ storage = storeHistory(emptyStorage, commandHistory)
    /\ run = 1

(* ------------------------- restart and reload ------------------------- *)
\* the two saving effects, after the render a handler causes
saveEffects == storage' = saved(storage, commandHistory, commandHistory', commandLogs, commandLogs')

\* the application is closed and started again: every useState starts from its
\* initial value and the calls of the old process are gone; the mount effects run
\* in the order of their declaration: the loading effect reads localStorage, the
\* saving effects see the empty lists of the first render, initDir() sends its
\* request
Restart(maxRun) ==
    /\ run < maxRun
    /\ run' = run + 1
    /\ input' = <<>>
    /\ output' = <<>>
    /\ isLoading' = FALSE
    /\ currentDir' = <<>>
    /\ previousDir' = <<>>
    /\ gitBranch' = <<>>
    /\ commandHistory' = <<>>
    /\ historyIndex' = -1
    /\ tempInput' = <<>>
    /\ commandLogs' = <<>>
    /\ subs' = <<>>
    /\ init' = [pc |-> "load", reqs |-> <<GoHomeRequest>>,
                savedHistory |-> loadedHistory(storage), savedLogs |-> loadedLogs(storage)]
    /\ storage' = storeLogs(storeHistory(storage, commandHistory'), commandLogs')
    /\ UNCHANGED fs

\* the render after setCommandHistory and setCommandLogs of the loading effect, and
\* the saving effects after it
Loaded ==
    /\ init.pc = "load"
    /\ commandHistory' = init.savedHistory
    /\ commandLogs' = init.savedLogs
    /\ storage' = storeLogs(storeHistory(storage, commandHistory'), commandLogs')
    /\ init' = [pc |-> "resolve", reqs |-> init.reqs]
    /\ UNCHANGED <<input, output, isLoading, sessionVars, historyIndex, tempInput, fs, subs, run>>

(* --------------------------- updateGitBranch -------------------------- *)
\* the value updateGitBranch stores when its request is answered
branchLabelOf(resp) == IF resp.ok THEN stripAnsi(trim(resp.text)) ELSE <<>>

\* the answer of the machine to the last request of a call
LastReq(call) == call.reqs[Len(call.reqs)]

(* ------------------------------- initDir ------------------------------ *)
initialPreviousDir_unset(cleanDir) == <<>>

\* setPreviousDir(cleanDir): initDir records the home directory as the previous one
initialPreviousDir(cleanDir) == cleanDir

\* the answer to `cd ~ && pwd` arrives
InitDirResolved ==
    /\ init.pc = "resolve"
    /\ \E resp \in {PwdResponse(fs, LastReq(init))} :
       \E cleanDir \in {stripAnsi(trim(resp.text))} :
          IF resp.ok
          THEN /\ currentDir' = cleanDir
               /\ previousDir' = initialPreviousDir(cleanDir)
               /\ init' = [pc |-> "branch", reqs |-> Append(init.reqs, GitBranchRequest(cleanDir))]
          ELSE /\ init' = [init EXCEPT !.pc = "done"]
               /\ UNCHANGED <<currentDir, previousDir>>
    /\ UNCHANGED <<input, output, isLoading, gitBranch, historyVars, commandLogs, fs, subs,
                   storage, run>>

\* the answer to initDir's branch query arrives
InitBranchDone ==
    /\ init.pc = "branch"
    /\ gitBranch' = branchLabelOf(GitResponse(fs, LastReq(init)))
    /\ init' = [init EXCEPT !.pc = "done"]
    /\ UNCHANGED <<input, output, isLoading, currentDir, previousDir, historyVars,
                   commandLogs, fs, subs, storage, run>>

(* ------------------------------ onChange ------------------------------ *)
editedIndex_keepsCursor(idx) == idx

\* if (historyIndex !== -1) setHistoryIndex(-1)
editedIndex(idx) == IF idx # -1 THEN -1 ELSE idx


\* the user edits the input buffer (while an Enter is still to come)
onChange(texts, limit) ==
    \E text \in texts :
        /\ Len(subs) < limit
        /\ text # input
        /\ input' = text
        /\ historyIndex' = editedIndex(historyIndex)
        /\ UNCHANGED <<output, isLoading, sessionVars, commandHistory, tempInput,
                       commandLogs, fs, init, subs, storage, run>>

(* ------------------------ ArrowUp and ArrowDown ------------------------ *)
\* what handleKeyDown reads and writes for the two arrow keys
KeyState ==
    [commandHistory |-> commandHistory, historyIndex |-> historyIndex,
     tempInput |-> tempInput, input |-> input]

\* an index outside the array yields undefined
undefined == <<"UNDEFINED">>

historyAt_fromOldest(history, newIndex) ==
    IF newIndex + 1 \in DOMAIN history THEN history[newIndex + 1] ELSE undefined

\* commandHistory[commandHistory.length - 1 - newIndex]
historyAt(history, newIndex) ==
    IF Len(history) - newIndex \in DOMAIN history
    THEN history[Len(history) - newIndex]
    ELSE undefined

olderIndex_noClamp(idx, length) == idx + 1

\* Math.min(historyIndex + 1, commandHistory.length - 1)
olderIndex(idx, length) == IF idx + 1 < length - 1 THEN idx + 1 ELSE length - 1

snapshot_keepsOld(idx, inp, tmp) == tmp

\* if (historyIndex === -1) setTempInput(input)
snapshot(idx, inp, tmp) == IF idx = -1 THEN inp ELSE tmp

restoredInput_empty(tmp) == <<>>

\* setInput(tempInput)
restoredInput(tmp) == tmp

\* e.key === 'ArrowUp'
arrowUp(st) ==
    IF Len(st.commandHistory) = 0 THEN st
    ELSE LET newIndex == olderIndex(st.historyIndex, Len(st.commandHistory))
         IN [st EXCEPT !.tempInput = snapshot(st.historyIndex, st.input, st.tempInput),
                       !.historyIndex = newIndex,
                       !.input = historyAt(st.commandHistory, newIndex)]

\* e.key === 'ArrowDown'
arrowDown(st) ==
    IF st.historyIndex = -1 THEN st
    ELSE LET newIndex == st.historyIndex - 1
         IN IF newIndex = -1
            THEN [st EXCEPT !.historyIndex = -1, !.input = restoredInput(st.tempInput)]
            ELSE [st EXCEPT !.historyIndex = newIndex,
                            !.input = historyAt(st.commandHistory, newIndex)]

\* the state after an arrow key
Keyed(st) ==
    /\ commandHistory' = st.commandHistory
    /\ historyIndex' = st.historyIndex
    /\ tempInput' = st.tempInput
    /\ input' = st.input
    /\ UNCHANGED <<output, isLoading, sessionVars, commandLogs, fs, init, subs, storage, run>>

\* handleKeyDown, e.key === 'ArrowUp'
ArrowUp == Keyed(arrowUp(KeyState))

\* handleKeyDown, e.key === 'ArrowDown'
ArrowDown == Keyed(arrowDown(KeyState))

emptyScreen_blankLine == <<BlankLine>>

\* setOutput([])
emptyScreen == <<>>

\* handleKeyDown, e.ctrlKey && e.key === 'l'
CtrlL ==
    /\ output' = emptyScreen
    /\ UNCHANGED <<input, isLoading, sessionVars, historyVars, commandLogs, fs, init, subs,
                   storage, run>>

(* ---------------------------- executeCommand -------------------------- *)
\* an executeCommand call: what it was given, the branch of the if-chain it took
\* (cd, builtin, jump, run), what its closure holds (dir, prev, branch: currentDir,
\* previousDir and gitBranch of the render it was made in), where it is suspended
\* and the requests it has issued
NewSub(cmd, trimmedCmd, kind, targetDir, pc, reqs) ==
    [cmd |-> cmd, trimmedCmd |-> trimmedCmd, kind |-> kind, targetDir |-> targetDir,
     dir |-> currentDir, prev |-> previousDir, branch |-> gitBranch,
     pc |-> pc, reqs |-> reqs, newDir |-> <<>>]

cdTargetDir_bareCdStays(trimmedCmd) ==
    IF trimmedCmd = s_cd THEN s_dot
    ELSE LET t == trim(substring(trimmedCmd, 3))
         IN IF t = <<>> THEN s_tilde ELSE t

\* let targetDir = trimmedCmd === 'cd' ? '~' : trimmedCmd.substring(3).trim() || '~'
cdTargetDir(trimmedCmd) ==
    IF trimmedCmd = s_cd THEN s_tilde
    ELSE LET t == trim(substring(trimmedCmd, 3))
         IN IF t = <<>> THEN s_tilde ELSE t

\* trimmedCmd.startsWith('cd ') || trimmedCmd === 'cd'
isCdCommand(trimmedCmd) == startsWith(trimmedCmd, s_cd_sp) \/ trimmedCmd = s_cd

hasPreviousDir_always(prev) == TRUE

\* `cd -` has a directory to go back to
hasPreviousDir(prev) == prev # <<>>

cdTestCmd_dashStays(targetDir, dir, prev) ==
    IF targetDir = s_dash THEN Request(<<dir>>, s_pwd)
    ELSE IF targetDir = s_tilde \/ targetDir = <<>> THEN GoHomeRequest
    ELSE IF startsWith(targetDir, s_tilde)
    THEN Request(<<s_HOME \o substring(targetDir, 1)>>, s_pwd)
    ELSE IF startsWith(targetDir, s_slash) \/ isDriveLetterPath(targetDir)
    THEN Request(<<targetDir>>, s_pwd)
    ELSE IF dir # <<>> THEN Request(<<dir, targetDir>>, s_pwd)
    ELSE Request(<<targetDir>>, s_pwd)

\* testCmd of the cd branch for the target, the closure's directories
cdTestCmd(targetDir, dir, prev) ==
    IF targetDir = s_dash THEN Request(<<prev>>, s_pwd)
    ELSE IF targetDir = s_tilde \/ targetDir = <<>> THEN GoHomeRequest
    ELSE IF startsWith(targetDir, s_tilde)
    THEN Request(<<s_HOME \o substring(targetDir, 1)>>, s_pwd)
    ELSE IF startsWith(targetDir, s_slash) \/ isDriveLetterPath(targetDir)
    THEN Request(<<targetDir>>, s_pwd)
    ELSE IF dir # <<>> THEN Request(<<dir, targetDir>>, s_pwd)
    ELSE Request(<<targetDir>>, s_pwd)

\* testCmd of the smart path detection
jumpTestCmd(trimmedCmd, dir) ==
    IF dir # <<>> THEN Request(<<dir, trimmedCmd>>, s_pwd) ELSE Request(<<trimmedCmd>>, s_pwd)

cdPrefix_always(dir) == <<dir>>

\* currentDir ? `cd "${currentDir}" && ` : nothing
cdPrefix(dir) == IF dir # <<>> THEN <<dir>> ELSE <<>>

fullCmd_wrongDir(trimmedCmd, dir) == Request(<<dir, trimmedCmd>>, trimmedCmd)

\* fullCmd of an ordinary command
fullCmd(trimmedCmd, dir) == Request(cdPrefix(dir), trimmedCmd)

oldpwdLines_twice == <<ErrorLine(s_oldpwd_not_set), ErrorLine(s_oldpwd_not_set)>>

\* the lines the cd branch appends when `cd -` has nothing to go back to
oldpwdLines == <<ErrorLine(s_oldpwd_not_set)>>

cdFailureLines_twoErrors(targetDir) ==
    <<ErrorLine(s_cd_colon \o targetDir \o s_no_such), ErrorLine(s_no_such), BlankLine>>

\* the lines the catch of the cd branch appends
cdFailureLines(targetDir) ==
    <<ErrorLine(s_cd_colon \o targetDir \o s_no_such), BlankLine>>

\* the cd branch, up to its await
ExecCd(cmd, trimmedCmd) ==
    LET targetDir == cdTargetDir(trimmedCmd)
        line == CommandLine(cmd, currentDir, gitBranch)
    IN /\ input' = <<>>
       /\ IF targetDir = s_dash /\ ~hasPreviousDir(previousDir)
          THEN /\ output' = output \o <<line>> \o oldpwdLines
               /\ commandLogs' = Append(commandLogs, CommandLog(trimmedCmd, currentDir, FALSE, 1))
               /\ subs' = Append(subs, NewSub(cmd, trimmedCmd, "cd", targetDir, "done", <<>>))
          ELSE /\ output' = Append(output, line)
               /\ commandLogs' = commandLogs
               /\ subs' = Append(subs,
                            NewSub(cmd, trimmedCmd, "cd",
                                   IF targetDir = s_dash THEN previousDir ELSE targetDir,
                                   "cdResolve",
                                   <<cdTestCmd(targetDir, currentDir, previousDir)>>))
       /\ UNCHANGED <<isLoading, sessionVars>>

\* the `clear` built-in
ExecClear(cmd, trimmedCmd) ==
    /\ output' = emptyScreen
    /\ input' = <<>>
    /\ commandLogs' = Append(commandLogs, CommandLog(trimmedCmd, currentDir, TRUE, 0))
    /\ subs' = Append(subs, NewSub(cmd, trimmedCmd, "builtin", <<>>, "done", <<>>))
    /\ UNCHANGED <<isLoading, sessionVars>>

\* a built-in that prints one text: stats, logs, history
ExecPrint(cmd, trimmedCmd, text) ==
    /\ output' = output \o <<CommandLine(cmd, currentDir, gitBranch), OutputLine(text), BlankLine>>
    /\ input' = <<>>
    /\ commandLogs' = Append(commandLogs, CommandLog(trimmedCmd, currentDir, TRUE, 1))
    /\ subs' = Append(subs, NewSub(cmd, trimmedCmd, "builtin", <<>>, "done", <<>>))
    /\ UNCHANGED <<isLoading, sessionVars>>

\* the text of the `logs` built-in
logsText(trimmedCmd, logs) ==
    LET parts == split(trimmedCmd, " ")
        count == IF Len(parts) >= 2 /\ parts[2] # <<>>
                 THEN parseInt(parts[2])
                 ELSE [nan |-> FALSE, val |-> DefaultLogCount]
    IN formatLogs(sliceLogs(logs, count))

\* the `export logs` built-in: the download succeeds or throws
ExecExport(cmd, trimmedCmd) ==
    /\ \E exported \in BOOLEAN :
         output' = output \o
           << CommandLine(cmd, currentDir, gitBranch),
              IF exported
              THEN OutputLine(s_exported \o NatToStr(Len(commandLogs)) \o s_logs_suffix)
              ELSE ErrorLine(s_export_failed),
              BlankLine >>
    /\ input' = <<>>
    /\ commandLogs' = Append(commandLogs, CommandLog(trimmedCmd, currentDir, TRUE, 1))
    /\ subs' = Append(subs, NewSub(cmd, trimmedCmd, "builtin", <<>>, "done", <<>>))
    /\ UNCHANGED <<isLoading, sessionVars>>

isDirPattern_noLowerCase(trimmedCmd) ==
    trimmedCmd # <<>>
    /\ \A k \in 1..Len(trimmedCmd) : trimmedCmd[k] \in (DirPatternChars \ LowerLetters)

\* const isDirPattern = /^[a-zA-Z0-9_.-]+$/.test(trimmedCmd)
isDirPattern(trimmedCmd) == isDirPatternMatch(trimmedCmd)

\* the smart path detection, up to its await
ExecJump(cmd, trimmedCmd) ==
    /\ subs' = Append(subs, NewSub(cmd, trimmedCmd, "jump", <<>>, "jumpResolve",
                                   <<jumpTestCmd(trimmedCmd, currentDir)>>))
    /\ UNCHANGED <<input, output, isLoading, sessionVars, commandLogs>>

\* an ordinary command, up to its await
ExecRun(cmd, trimmedCmd) ==
    /\ isLoading' = TRUE
    /\ output' = Append(output, CommandLine(cmd, currentDir, gitBranch))
    /\ subs' = Append(subs, NewSub(cmd, trimmedCmd, "run", <<>>, "run",
                                   <<fullCmd(trimmedCmd, currentDir)>>))
    /\ UNCHANGED <<input, sessionVars, commandLogs>>

isBlank_emptyOnly(cmd) == cmd = <<>>

\* if (!cmd.trim()) return
isBlank(cmd) == trim(cmd) = <<>>

isLogsCommand_never(trimmedCmd) == FALSE

\* trimmedCmd.startsWith('logs')
isLogsCommand(trimmedCmd) == startsWith(trimmedCmd, s_logs)

recordedText_expanded(typed, expanded) == expanded

\* addToHistory(trimmedCmd) is called before the alias is expanded
recordedText(typed, expanded) == typed

\* executeCommand(cmd), from its call to its first await or return
executeCommand(cmd) ==
    IF isBlank(cmd) THEN UNCHANGED vars
    ELSE LET typed == trim(cmd)
             trimmedCmd == expandAlias(typed)
         IN /\ commandHistory' = addToHistory(commandHistory, recordedText(typed, trimmedCmd))
            /\ historyIndex' = -1
            /\ tempInput' = <<>>
            /\ UNCHANGED <<fs, init, run>>
            /\ IF isCdCommand(trimmedCmd) THEN ExecCd(cmd, trimmedCmd)
               ELSE IF trimmedCmd = s_clear THEN ExecClear(cmd, trimmedCmd)
               ELSE IF trimmedCmd = s_stats \/ trimmedCmd = s_performance
               THEN ExecPrint(cmd, trimmedCmd, formatStats(commandLogs))
               ELSE IF isLogsCommand(trimmedCmd)
               THEN ExecPrint(cmd, trimmedCmd, logsText(trimmedCmd, commandLogs))
               ELSE IF trimmedCmd = s_export_logs \/ trimmedCmd = s_export_dash_logs
               THEN ExecExport(cmd, trimmedCmd)
               ELSE IF trimmedCmd = s_history
               THEN ExecPrint(cmd, trimmedCmd, formatHistory(commandHistory))
               ELSE IF isDirPattern(trimmedCmd) THEN ExecJump(cmd, trimmedCmd)
               ELSE ExecRun(cmd, trimmedCmd)
            /\ saveEffects

\* handleKeyDown, e.key === 'Enter'
Enter(limit) ==
    /\ Len(subs) < limit
    /\ executeCommand(input)

(* ------------------- executeCommand after its awaits ------------------ *)
Calls == DOMAIN subs

resolvedDir_untrimmed(resp) == resp.text

\* const newDir = stripAnsi(result.trim())
resolvedDir(resp) == stripAnsi(trim(resp.text))

committedPreviousDir_keepsOld(call) == call.prev

\* setPreviousDir(currentDir): currentDir is the one of the call's closure
committedPreviousDir(call) == call.dir

\* the lines appended when the cd branch has finished
cdSuccessLines == <<BlankLine>>

jumpSuccessLines_newDir(call) == <<CommandLine(call.cmd, call.newDir, call.branch), BlankLine>>

\* the lines appended when a jump has finished; the prompt is the closure's
jumpSuccessLines(call) == <<CommandLine(call.cmd, call.dir, call.branch), BlankLine>>

runLines_twoErrors(resp) ==
    IF resp.ok
    THEN (IF resp.text # <<>> THEN <<OutputLine(stripAnsi(resp.text))>> ELSE <<>>) \o <<BlankLine>>
    ELSE <<ErrorLine(resp.text), ErrorLine(resp.text), BlankLine>>

\* the lines an ordinary command appends for its answer
runLines(resp) ==
    IF resp.ok
    THEN (IF resp.text # <<>> THEN <<OutputLine(stripAnsi(resp.text))>> ELSE <<>>) \o <<BlankLine>>
    ELSE <<ErrorLine(resp.text), BlankLine>>

\* the cd branch: the answer to testCmd arrives
CdResolved(i) ==
    /\ subs[i].pc = "cdResolve"
    /\ \E call \in {subs[i]} :
       \E resp \in {PwdResponse(fs, LastReq(call))} :
       \E newDir \in {resolvedDir(resp)} :
          IF resp.ok
          THEN /\ previousDir' = committedPreviousDir(call)
               /\ currentDir' = newDir
               /\ subs' = [subs EXCEPT ![i] =
                             [call EXCEPT !.pc = "cdBranch", !.newDir = newDir,
                                          !.reqs = Append(call.reqs, GitBranchRequest(newDir))]]
               /\ UNCHANGED <<output, commandLogs>>
          ELSE /\ output' = output \o cdFailureLines(call.targetDir)
               /\ commandLogs' = Append(commandLogs,
                                        CommandLog(call.trimmedCmd, call.dir, FALSE, 1))
               /\ subs' = [subs EXCEPT ![i].pc = "done"]
               /\ UNCHANGED <<currentDir, previousDir>>
    /\ UNCHANGED <<input, isLoading, gitBranch, historyVars, fs, init, run>>
    /\ saveEffects

\* the cd branch: the answer to its branch query arrives
CdBranchDone(i) ==
    /\ subs[i].pc = "cdBranch"
    /\ gitBranch' = branchLabelOf(GitResponse(fs, LastReq(subs[i])))
    /\ output' = output \o cdSuccessLines
    /\ commandLogs' = Append(commandLogs, CommandLog(subs[i].trimmedCmd, subs[i].dir, TRUE, 1))
    /\ subs' = [subs EXCEPT ![i].pc = "done"]
    /\ UNCHANGED <<input, isLoading, currentDir, previousDir, historyVars, fs, init, run>>
    /\ saveEffects

\* the smart path detection: the answer to the probe arrives
JumpResolved(i) ==
    /\ subs[i].pc = "jumpResolve"
    /\ \E call \in {subs[i]} :
       \E resp \in {PwdResponse(fs, LastReq(call))} :
       \E newDir \in {resolvedDir(resp)} :
          IF resp.ok
          THEN /\ previousDir' = committedPreviousDir(call)
               /\ currentDir' = newDir
               /\ subs' = [subs EXCEPT ![i] =
                             [call EXCEPT !.pc = "jumpBranch", !.newDir = newDir,
                                          !.reqs = Append(call.reqs, GitBranchRequest(newDir))]]
               /\ UNCHANGED <<output, isLoading>>
          ELSE \* not a directory: go on as an ordinary command
               /\ isLoading' = TRUE
               /\ output' = Append(output, CommandLine(call.cmd, call.dir, call.branch))
               /\ subs' = [subs EXCEPT ![i] =
                             [call EXCEPT !.pc = "run",
                                          !.reqs = Append(call.reqs,
                                                          fullCmd(call.trimmedCmd, call.dir))]]
               /\ UNCHANGED <<currentDir, previousDir>>
    /\ UNCHANGED <<input, gitBranch, historyVars, commandLogs, fs, init, storage, run>>

\* the smart path detection: the answer to its branch query arrives
JumpBranchDone(i) ==
    /\ subs[i].pc = "jumpBranch"
    /\ gitBranch' = branchLabelOf(GitResponse(fs, LastReq(subs[i])))
    /\ output' = output \o jumpSuccessLines(subs[i])
    /\ input' = <<>>
    /\ commandLogs' = Append(commandLogs, CommandLog(subs[i].trimmedCmd, subs[i].dir, TRUE, 1))
    /\ subs' = [subs EXCEPT ![i].pc = "done"]
    /\ UNCHANGED <<isLoading, currentDir, previousDir, historyVars, fs, init, run>>
    /\ saveEffects

loadingAfterRun_stays == TRUE

\* finally { setIsLoading(false); ... }
loadingAfterRun == FALSE

\* an ordinary command: its answer arrives
RunDone(i) ==
    /\ subs[i].pc = "run"
    /\ \E resp \in RunResponses(fs, LastReq(subs[i])) :
         /\ output' = output \o runLines(resp)
         /\ commandLogs' = Append(commandLogs,
                                  CommandLog(subs[i].trimmedCmd, subs[i].dir, resp.ok, 0))
    /\ isLoading' = loadingAfterRun
    /\ input' = <<>>
    /\ subs' = [subs EXCEPT ![i].pc = "done"]
    /\ UNCHANGED <<sessionVars, historyVars, fs, init, run>>
    /\ saveEffects

(* ---------------------------- specifications -------------------------- *)
\* nothing is awaiting the executor
Idle == init.pc = "done" /\ \A i \in Calls : subs[i].pc = "done"

\* the user may type and press Enter at any time
Next ==
    \/ onChange(Lines, MaxSubmit)
    \/ Enter(MaxSubmit)
    \/ InitDirResolved
    \/ InitBranchDone
    \/ \E i \in Calls : CdResolved(i)
    \/ \E i \in Calls : CdBranchDone(i)
    \/ \E i \in Calls : JumpResolved(i)
    \/ \E i \in Calls : JumpBranchDone(i)
    \/ \E i \in Calls : RunDone(i)

Spec == Init /\ [][Next]_vars

\* the user types and presses Enter only when nothing is outstanding
NextSeq ==
    \/ Idle /\ onChange(SeqLines, MaxSeqSubmit)
    \/ Idle /\ Enter(MaxSeqSubmit)
    \/ InitDirResolved
    \/ InitBranchDone
    \/ \E i \in Calls : CdResolved(i)
    \/ \E i \in Calls : CdBranchDone(i)
    \/ \E i \in Calls : JumpResolved(i)
    \/ \E i \in Calls : JumpBranchDone(i)
    \/ \E i \in Calls : RunDone(i)

SpecSeq == Init /\ [][NextSeq]_vars

\* lines that exercise the alias table, processed one at a time
NextAlias ==
    \/ Idle /\ onChange(AliasLines, MaxAliasSubmit)
    \/ Idle /\ Enter(MaxAliasSubmit)
    \/ InitDirResolved
    \/ InitBranchDone
    \/ \E i \in Calls : CdResolved(i)
    \/ \E i \in Calls : CdBranchDone(i)
    \/ \E i \in Calls : JumpResolved(i)
    \/ \E i \in Calls : JumpBranchDone(i)
    \/ \E i \in Calls : RunDone(i)

SpecAlias == Init /\ [][NextAlias]_vars

\* the ways home, with lines processed one at a time
NextHome ==
    \/ Idle /\ onChange(HomeLines, MaxHomeSubmit)
    \/ Idle /\ Enter(MaxHomeSubmit)
    \/ InitDirResolved
    \/ InitBranchDone
    \/ \E i \in Calls : CdResolved(i)
    \/ \E i \in Calls : CdBranchDone(i)
    \/ \E i \in Calls : JumpResolved(i)
    \/ \E i \in Calls : JumpBranchDone(i)
    \/ \E i \in Calls : RunDone(i)

SpecHome == Init /\ [][NextHome]_vars

\* the user types and uses the arrow keys at any time, also while a command is
\* outstanding, and presses Enter when nothing is outstanding; the session may
\* start with a stored history
InitKeys == InitStored(KeyHistories)

NextKeys ==
    \/ onChange(KeyLines, MaxKeySubmit)
    \/ Idle /\ Enter(MaxKeySubmit)
    \/ ArrowUp
    \/ ArrowDown
    \/ InitDirResolved
    \/ InitBranchDone
    \/ \E i \in Calls : CdResolved(i)
    \/ \E i \in Calls : CdBranchDone(i)
    \/ \E i \in Calls : JumpResolved(i)
    \/ \E i \in Calls : JumpBranchDone(i)
    \/ \E i \in Calls : RunDone(i)

SpecKeys == InitKeys /\ [][NextKeys]_vars

\* sessions that start with a stored history of up to HistoryCap commands, with
\* lines processed one at a time
InitHist == InitStored(HistHistories)

NextHist ==
    \/ Idle /\ onChange(HistLines, MaxHistSubmit)
    \/ Idle /\ Enter(MaxHistSubmit)
    \/ InitDirResolved
    \/ InitBranchDone
    \/ \E i \in Calls : CdResolved(i)
    \/ \E i \in Calls : CdBranchDone(i)
    \/ \E i \in Calls : JumpResolved(i)
    \/ \E i \in Calls : JumpBranchDone(i)
    \/ \E i \in Calls : RunDone(i)

SpecHist == InitHist /\ [][NextHist]_vars

\* sessions that are closed and started again, lines processed one at a time
NextRestart ==
    \/ Idle /\ onChange(RestartLines, MaxRestartSubmit)
    \/ Idle /\ Enter(MaxRestartSubmit)
    \/ InitDirResolved
    \/ InitBranchDone
    \/ \E i \in Calls : CdResolved(i)
    \/ \E i \in Calls : CdBranchDone(i)
    \/ \E i \in Calls : RunDone(i)
    \/ Idle /\ Restart(MaxRun)
    \/ Loaded

SpecRestart == Init /\ [][NextRestart]_vars

\* built-ins, shortcuts and the screen, lines processed one at a time
NextBuiltins ==
    \/ onChange(BuiltinLines, MaxBuiltinSubmit)
    \/ Idle /\ Enter(MaxBuiltinSubmit)
    \/ ArrowUp
    \/ CtrlL
    \/ InitDirResolved
    \/ InitBranchDone
    \/ \E i \in Calls : CdResolved(i)
    \/ \E i \in Calls : CdBranchDone(i)
    \/ \E i \in Calls : JumpResolved(i)
    \/ \E i \in Calls : JumpBranchDone(i)
    \/ \E i \in Calls : RunDone(i)

SpecBuiltins == Init /\ [][NextBuiltins]_vars

\* the user types at any time and presses Enter once initDir has run to its end,
\* also while earlier calls are outstanding; every request the session or a call
\* has sent is answered at some time, with a result or with a failure
NextLive ==
    \/ onChange(LiveLines, MaxLiveSubmit)
    \/ init.pc = "done" /\ Enter(MaxLiveSubmit)
    \/ InitDirResolved
    \/ InitBranchDone
    \/ \E i \in Calls : CdResolved(i)
    \/ \E i \in Calls : CdBranchDone(i)
    \/ \E i \in Calls : JumpResolved(i)
    \/ \E i \in Calls : JumpBranchDone(i)
    \/ \E i \in Calls : RunDone(i)

\* the request call i waits for is answered
Answered(i) ==
    /\ i \in Calls
    /\ CdResolved(i) \/ CdBranchDone(i) \/ JumpResolved(i) \/ JumpBranchDone(i) \/ RunDone(i)

SpecLive ==
    /\ Init /\ [][NextLive]_vars
    /\ WF_vars(InitDirResolved) /\ WF_vars(InitBranchDone)
    /\ \A i \in 1..MaxLiveSubmit : WF_vars(Answered(i))

(* ======================= properties of the program ==================== *)
\* an Enter that started an executeCommand call, and the call it started
Submitted == Len(subs') = Len(subs) + 1
NewCall == subs'[Len(subs')]

\* call i takes a step
Moves(i) == subs'[i] # subs[i]

\* call i commits a navigation: its resolution request is answered with a directory
Commits(i) ==
    /\ subs[i].pc \in {"cdResolve", "jumpResolve"}
    /\ subs'[i].pc \in {"cdBranch", "jumpBranch"}

\* call i has committed a navigation
Committed(i) == subs[i].newDir # <<>>

ErrorCount(lines) == Len(SelectSeq(lines, LAMBDA l : l.type = "error"))

\* the lines a step appends to the transcript
Appended == SubSeq(output', Len(output) + 1, Len(output'))
Appends == Len(output') >= Len(output) /\ SubSeq(output', 1, Len(output)) = output

\* the directory string of a list of names, and the label the machine has for it
HomeDir == PathStr(HomeNames)
LabelOf(dir) == branchLabelOf(GitResponse(fs, GitBranchRequest(dir)))

(* ---- C1 ---- *)
\* C1: an explicit cd whose verification request fails leaves currentDir,
\* previousDir and gitBranch as they were, both when it is submitted and when the
\* failure arrives, and the failure appends exactly one error-type line.
C1_FailedCdKeepsState ==
    [][ /\ (Submitted /\ NewCall.pc = "cdResolve") =>
              /\ sessionVars' = sessionVars
              /\ Appends /\ ErrorCount(Appended) = 0
        /\ \A i \in Calls :
              (subs[i].pc = "cdResolve" /\ Moves(i) /\ ~PwdResponse(fs, LastReq(subs[i])).ok) =>
                 /\ sessionVars' = sessionVars
                 /\ Appends /\ ErrorCount(Appended) = 1
                 /\ subs'[i].pc = "done"
                 /\ subs'[i].reqs = subs[i].reqs ]_vars

\* a cd to a missing directory has failed and its error line is in the transcript
C1_Witness ==
    \E i \in Calls :
        /\ isCdCommand(subs[i].trimmedCmd)
        /\ subs[i].pc = "done"
        /\ Len(subs[i].reqs) = 1
        /\ ~PwdResponse(fs, subs[i].reqs[1]).ok
        /\ \E k \in 1..Len(output) :
              output[k] = ErrorLine(s_cd_colon \o subs[i].targetDir \o s_no_such)

(* ---- C2 ---- *)
\* C2: at most one submission is in progress in every reachable state.
C2_AtMostOneInProgress == Cardinality({i \in Calls : subs[i].pc # "done"}) <= 1

(* ---- C3 ---- *)
\* C3: a submission begins only when every earlier submission has applied all its
\* transcript lines and state changes.
C3_NextBeginsAfterPrevious ==
    [][ Submitted => \A i \in Calls : subs[i].pc = "done" ]_vars

(* ---- C4 ---- *)
\* C4 (as claimed): no reachable state has currentDir already at the directory a
\* navigation committed while gitBranch still is the label of the directory the
\* navigation started from.
C4_NoStaleBranchLabel ==
    \A i \in Calls :
        ~ /\ subs[i].pc \in {"cdBranch", "jumpBranch"}
          /\ currentDir = subs[i].newDir
          /\ gitBranch = LabelOf(subs[i].dir)
          /\ LabelOf(subs[i].dir) # LabelOf(subs[i].newDir)

\* C4 (amended): a navigation commits currentDir and previousDir together in
\* the step in which its resolution is answered, and that step leaves gitBranch
\* alone; gitBranch is set by the later step in which the branch query for the new
\* directory is answered, and that step leaves the two directories alone.
C4_DirsTogetherBranchLater ==
    [][ \A i \in Calls :
          /\ Commits(i) =>
                /\ currentDir' = subs'[i].newDir
                /\ currentDir' = resolvedDir(PwdResponse(fs, LastReq(subs[i])))
                /\ previousDir' = subs[i].dir
                /\ gitBranch' = gitBranch
          /\ (subs[i].pc \in {"cdBranch", "jumpBranch"} /\ Moves(i)) =>
                /\ gitBranch' = LabelOf(subs[i].newDir)
                /\ currentDir' = currentDir
                /\ previousDir' = previousDir
          /\ (subs[i].pc \in {"cdResolve", "jumpResolve"} /\ Moves(i) /\ ~Commits(i)) =>
                /\ currentDir' = currentDir
                /\ previousDir' = previousDir ]_vars

\* a navigation from the home directory into the git work tree has committed and
\* the label of the home directory is still shown
C4_Witness ==
    \E i \in Calls :
        /\ subs[i].pc \in {"cdBranch", "jumpBranch"}
        /\ subs[i].dir = HomeDir
        /\ currentDir = subs[i].newDir
        /\ previousDir = HomeDir
        /\ gitBranch = LabelOf(HomeDir)
        /\ LabelOf(currentDir) = GitBranchName
        /\ gitBranch # LabelOf(currentDir)

(* ---- C5 ---- *)
\* C5: once a navigation has committed, previousDir is the value currentDir had
\* immediately before the latest commit: every commit stores the currentDir it
\* replaces, and no other step changes previousDir afterwards.
C5_PreviousIsDirBeforeLastNavigation ==
    [][ /\ \A i \in Calls : Commits(i) => previousDir' = currentDir
        /\ ((\E i \in Calls : Committed(i)) /\ ~(\E i \in Calls : Commits(i)))
              => previousDir' = previousDir ]_vars

(* ---- C6 ---- *)
\* the session has started and nothing has navigated or is under way
AtSessionStart ==
    /\ init.pc # "resolve"
    /\ currentDir # <<>>
    /\ \A i \in Calls : subs[i].pc = "done" /\ ~Committed(i)

\* the Enter of `cd -` or of its shortcut `-`
SubmitsCdDash == Submitted /\ NewCall.trimmedCmd = l_cd_dash

C7_CdDashSwaps ==
    [][ \A i \in Calls :
          (subs[i].trimmedCmd = l_cd_dash /\ subs[i].pc = "cdResolve" /\ Moves(i)) =>
             /\ Commits(i)
             /\ currentDir' = previousDir
             /\ previousDir' = currentDir ]_vars

\* after a navigation from A to a different B, two `cd -` in a row have committed:
\* the first returned to A, the second to B, and previousDir is A again
C7_Witness ==
    /\ Len(subs) >= 3
    /\ \A i \in 1..3 : Committed(i) /\ subs[i].pc = "done"
    /\ subs[1].dir # subs[1].newDir
    /\ subs[2].trimmedCmd = l_cd_dash
    /\ subs[3].trimmedCmd = l_cd_dash
    /\ subs[2].newDir = subs[1].dir
    /\ subs[3].newDir = subs[1].newDir
    /\ currentDir = subs[1].newDir
    /\ previousDir = subs[1].dir

(* ---- C8 ---- *)
\* tok is the name of an existing subdirectory of dir
NamesSubdir(tok, dir) ==
    /\ dir # <<>>
    /\ tok \notin {s_dot, s_dotdot}
    /\ Append(pathParts(dir), tok) \in fs

Subdir(dir, tok) == PathStr(Append(pathParts(dir), tok))

\* the words executeCommand handles before the smart path detection
IsReserved(tok) ==
    \/ hasAlias(tok)
    \/ tok = s_cd
    \/ tok \in {s_clear, s_stats, s_performance, s_export_dash_logs, s_history}
    \/ startsWith(tok, s_logs)

\* the line typed for the call an Enter starts, and for call i
TypedNow == trim(NewCall.cmd)
Typed(i) == trim(subs[i].cmd)

\* a word of the character class of the smart path detection that names a
\* subdirectory of dir
SubdirWord(tok, dir) == isDirPatternMatch(tok) /\ NamesSubdir(tok, dir)

\* the Enter of a subdirectory's name starts a probe and nothing else
StartsJump ==
    /\ NewCall.kind = "jump"
    /\ NewCall.pc = "jumpResolve"
    /\ NewCall.reqs = <<Request(<<currentDir, TypedNow>>, s_pwd)>>

\* a step of call i, made for a subdirectory's name: the probe commits the
\* subdirectory, and the call then finishes without sending the word as a command
JumpsOn(i) ==
    /\ subs[i].pc = "jumpResolve"
    /\ Commits(i)
    /\ currentDir' = Subdir(subs[i].dir, Typed(i))
    /\ previousDir' = subs[i].dir
    /\ subs'[i].reqs = Append(subs[i].reqs, GitBranchRequest(currentDir'))

FinishesJump(i) ==
    /\ subs[i].pc = "jumpBranch"
    /\ subs'[i].pc = "done"
    /\ subs'[i].reqs = subs[i].reqs

IsDots(s) == s # <<>> /\ \A k \in 1..Len(s) : s[k] = "."

\* the shortcuts: the dot runs, `~` and `-`
IsShortcut(tok) == IsDots(tok) \/ tok = s_tilde \/ tok = s_dash

\* a line of one word
OneWord(s) == s # <<>> /\ \A k \in 1..Len(s) : s[k] # " "

\* the probe of tok from dir finds a directory: tok names a subdirectory of dir, or
\* of the working directory of the process while dir is still empty
ProbeFinds(tok, dir) ==
    \/ NamesSubdir(tok, dir)
    \/ dir = <<>> /\ tok \notin {s_dot, s_dotdot} /\ Append(ProcessCwd, tok) \in fs

\* `cd "${dir}" && <line>`: the ordinary execution of a line in a directory
RunRequest(dir, line) == Request(IF dir # <<>> THEN <<dir>> ELSE <<>>, line)

\* a one-word line that is no shortcut and that the probe does not find from dir
OtherWord(tok, dir) == OneWord(tok) /\ ~IsShortcut(tok) /\ ~ProbeFinds(tok, dir)

\* the Enter of such a word goes to the executor, after a probe when the word has
\* the shape of a directory name, and changes neither session state nor, for a
\* probe, the transcript
StartsRun ==
    /\ sessionVars' = sessionVars
    /\ IF isDirPatternMatch(TypedNow)
       THEN /\ NewCall.pc = "jumpResolve"
            /\ NewCall.reqs = <<jumpTestCmd(TypedNow, currentDir)>>
            /\ output' = output
       ELSE /\ NewCall.pc = "run"
            /\ NewCall.reqs = <<RunRequest(currentDir, TypedNow)>>

\* a step of call i, made for such a word: the failing probe adds only the echo of
\* the line that every ordinary command starts with, leaves the session state
\* alone and sends the line; the answer to the line ends the call, nothing is
\* sent again
RunsOn(i) ==
    \/ /\ subs[i].pc = "jumpResolve"
       /\ ~Commits(i)
       /\ subs'[i].pc = "run"
       /\ sessionVars' = sessionVars
       /\ Appends /\ Len(Appended) = 1 /\ Appended[1].type = "command"
       /\ subs'[i].reqs = Append(subs[i].reqs, RunRequest(subs[i].dir, Typed(i)))
    \/ /\ subs[i].pc = "run"
       /\ subs'[i].pc = "done"
       /\ subs'[i].reqs = subs[i].reqs
       /\ sessionVars' = sessionVars

Ancestor(names, k) == IF k >= Len(names) THEN <<>> ELSE SubSeq(names, 1, Len(names) - k)

AncestorDir(dir, k) == PathStr(Ancestor(pathParts(dir), k))

\* call i was made for a line of dots typed in a directory
DotsCall(i) == IsDots(Typed(i)) /\ subs[i].dir # <<>>

\* when call i ends, currentDir is N-1 levels above the directory its N dots were
\* typed in
EndsUp(i) ==
    (subs[i].pc # "done" /\ subs'[i].pc = "done") =>
        currentDir' = AncestorDir(subs[i].dir, Len(Typed(i)) - 1)

FirstToken(line) == split(line, " ")[1]
AfterFirstToken(line) == substring(line, Len(FirstToken(line)))
HasMoreTokens(line) == Len(FirstToken(line)) < Len(line)

\* the shortcuts that are rewritten: `..`, `...`, `....`, `~` and `-`
ShortcutKeys == { l_dots2, l_dots3, l_dots4, s_tilde, s_dash }

\* an Enter of a line whose first token is a shortcut
SubmitsShortcut == Submitted /\ FirstToken(TypedNow) \in ShortcutKeys

C12_OnlyTableKeysExpand ==
    [][ Submitted =>
          NewCall.trimmedCmd =
             IF FirstToken(TypedNow) \in DOMAIN aliases
             THEN aliases[FirstToken(TypedNow)] \o AfterFirstToken(TypedNow)
             ELSE TypedNow ]_vars

(* ---- C13 ---- *)
\* the three lines that go home
GoesHome(line) == line \in { s_cd, l_cd_tilde, s_tilde }

\* C13: `cd`, `cd ~` and `~` send the same go-home request whatever currentDir and
\* previousDir are; when it is answered with a directory, currentDir becomes that
\* directory and previousDir the currentDir before.
C13_HomeLinesGoHome ==
    [][ /\ (Submitted /\ GoesHome(TypedNow)) =>
              /\ NewCall.pc = "cdResolve"
              /\ NewCall.reqs = <<GoHomeRequest>>
              /\ currentDir' = currentDir /\ previousDir' = previousDir
        /\ \A i \in Calls :
              (Moves(i) /\ GoesHome(Typed(i)) /\ subs[i].pc = "cdResolve"
                 /\ PwdResponse(fs, GoHomeRequest).ok) =>
                 /\ currentDir' = HomeDir
                 /\ previousDir' = currentDir ]_vars

\* `~` was typed in /tmp and has taken the session home, with /tmp as previousDir
C13_Witness ==
    \E i \in Calls :
        /\ subs[i].cmd = s_tilde
        /\ subs[i].dir = PathStr(<<n_tmp>>)
        /\ subs[i].pc = "done"
        /\ subs[i].reqs[1] = GoHomeRequest
        /\ currentDir = HomeDir
        /\ previousDir = PathStr(<<n_tmp>>)

(* ---- C14 ---- *)
\* n presses of ArrowUp, and of ArrowDown, in a row
RECURSIVE ups(_, _)
ups(st, n) == IF n = 0 THEN st ELSE arrowUp(ups(st, n - 1))

RECURSIVE downs(_, _)
downs(st, n) == IF n = 0 THEN st ELSE arrowDown(downs(st, n - 1))

\* the k-th most recent command
Recent(k) == commandHistory[Len(commandHistory) + 1 - k]

\* C14: when the user is not browsing, the history holds c1..ck as its k most recent
\* commands and the input holds L, then the j-th of k ArrowUp presses in a row
\* shows the j-th most recent command (ck first, c1 last), and k ArrowDown presses
\* after them end with the cursor at -1 and the input equal to L.
C14_RecallRoundTrip ==
    historyIndex = -1 =>
        \A k \in 1..Len(commandHistory) :
            /\ \A j \in 1..k :
                  /\ ups(KeyState, j).input = Recent(j)
                  /\ ups(KeyState, j).historyIndex = j - 1
            /\ downs(ups(KeyState, k), k).historyIndex = -1
            /\ downs(ups(KeyState, k), k).input = input

\* three ArrowUp presses on a typed line have reached the third most recent command
C14_Witness ==
    /\ Len(commandHistory) >= 3
    /\ historyIndex = 2
    /\ tempInput \in KeyLines
    /\ input = Recent(3)
    /\ downs(KeyState, 3).input = tempInput

(* ---- C15 ---- *)
Entries(history) == { history[k] : k \in DOMAIN history }
Without(history, cmd) == SelectSeq(history, LAMBDA c : c # cmd)

\* C15: the Enter of a command that is already in the history leaves the length of
\* the history as it is, makes the command the most recent entry, its only
\* occurrence, and keeps the order of all other entries.
C15_RerecordMovesToNewest ==
    [][ (Submitted /\ TypedNow \in Entries(commandHistory)) =>
          /\ Len(commandHistory') = Len(commandHistory)
          /\ commandHistory'[Len(commandHistory')] = TypedNow
          /\ \A k \in 1..(Len(commandHistory') - 1) : commandHistory'[k] # TypedNow
          /\ Without(commandHistory', TypedNow) = Without(commandHistory, TypedNow) ]_vars

\* the oldest command of a full history was entered again and is now the newest
C15_Witness ==
    /\ Len(subs) >= 1
    /\ Len(commandHistory) = HistoryCap
    /\ commandHistory[HistoryCap] = NatToStr(1)
    /\ commandHistory[1] = NatToStr(2)
    /\ subs[Len(subs)].cmd = NatToStr(1)

(* ---- C16 ---- *)
NoDuplicates(history) ==
    \A a, b \in DOMAIN history : history[a] = history[b] => a = b

\* C16: the history never has more than HistoryCap entries nor two equal ones, and
\* the Enter of a command that is not in a full history removes its oldest entry
\* only and appends the command.
C16_CappedAndDistinct ==
    /\ [](Len(commandHistory) <= HistoryCap /\ NoDuplicates(commandHistory))
    /\ [][ (Submitted /\ Len(commandHistory) = HistoryCap
              /\ TypedNow \notin Entries(commandHistory)) =>
             commandHistory' = Append(Tail(commandHistory), TypedNow) ]_vars

\* a new command was entered on a full history: the oldest entry is gone
C16_Witness ==
    /\ Len(subs) >= 1
    /\ Len(commandHistory) = HistoryCap
    /\ commandHistory[1] = NatToStr(2)
    /\ commandHistory[HistoryCap] = NatToStr(HistoryCap + 1)
    /\ subs[Len(subs)].cmd = NatToStr(HistoryCap + 1)

(* ---- C17 ---- *)
\* the user changes the text of the input while the cursor is on a history entry
EditsWhileBrowsing == onChange(KeyLines, MaxKeySubmit) /\ historyIndex >= 0

\* C17 (as claimed): an edit made while browsing leaves the cursor at its position
\* i, so that the next ArrowUp moves to i+1 (clamped) and the next ArrowDown to i-1.
C17_EditKeepsCursor ==
    [][ EditsWhileBrowsing =>
          /\ historyIndex' = historyIndex
          /\ arrowUp(KeyState').historyIndex =
                olderIndex(historyIndex, Len(commandHistory))
          /\ arrowDown(KeyState').historyIndex = historyIndex - 1 ]_vars

\* C17 (amended): an edit made while browsing resets the cursor to -1 and leaves
\* the history and the snapshot alone, so that the next ArrowUp moves to 0, the
\* most recent entry, whatever i was, and the next ArrowDown leaves the cursor at -1.
C17_EditResetsCursor ==
    [][ EditsWhileBrowsing =>
          /\ historyIndex' = -1
          /\ commandHistory' = commandHistory
          /\ tempInput' = tempInput
          /\ arrowUp(KeyState').historyIndex = 0
          /\ arrowDown(KeyState').historyIndex = -1 ]_vars

\* a recalled command was edited: the cursor is -1 although the snapshot of the
\* line typed before browsing is still held and differs from the input
C17_Witness ==
    /\ historyIndex = -1
    /\ Len(commandHistory) >= 2
    /\ tempInput \in KeyLines
    /\ input \in KeyLines
    /\ input # tempInput
    /\ input \notin Entries(commandHistory)

(* ---- C18 ---- *)
\* C18: after the input is edited while browsing the user is not browsing any
\* more: an ArrowDown that follows changes nothing, and an ArrowUp that follows
\* takes the edited text as the snapshot and shows the most recent entry.
C18_TypingExitsBrowsing ==
    [][ EditsWhileBrowsing =>
          /\ arrowDown(KeyState') = KeyState'
          /\ arrowUp(KeyState').tempInput = input'
          /\ arrowUp(KeyState').input = commandHistory[Len(commandHistory)]
          /\ input' # input ]_vars

\* ArrowUp after an edit: the cursor is on the most recent entry and the snapshot
\* is a typed line that is not in the history
C18_Witness ==
    /\ historyIndex = 0
    /\ Len(commandHistory) >= 2
    /\ input = commandHistory[Len(commandHistory)]
    /\ tempInput \in KeyLines
    /\ tempInput \notin Entries(commandHistory)

(* ---- C19 ---- *)
\* the cursor is on the oldest entry
AtOldest == Len(commandHistory) > 0 /\ historyIndex = Len(commandHistory) - 1

\* C19: the cursor is always between -1 and the index of the oldest entry; ArrowUp
\* on the oldest entry leaves the cursor there, shows that entry, and changes
\* nothing when pressed again; ArrowUp on an empty history changes neither cursor,
\* snapshot nor input.
C19_CursorInRangeAndClamped ==
    /\ historyIndex >= -1
    /\ historyIndex <= Len(commandHistory) - 1
    /\ AtOldest =>
          /\ arrowUp(KeyState).historyIndex = historyIndex
          /\ arrowUp(KeyState).input = commandHistory[1]
          /\ arrowUp(KeyState).tempInput = tempInput
          /\ arrowUp(arrowUp(KeyState)) = arrowUp(KeyState)
    /\ Len(commandHistory) = 0 => arrowUp(KeyState) = KeyState

\* the cursor is on the oldest of at least three entries, which the input shows
C19_Witness ==
    /\ Len(commandHistory) >= 3
    /\ AtOldest
    /\ input = commandHistory[1]
    /\ arrowUp(KeyState) = KeyState

(* ---- C20 ---- *)
\* C20: ArrowDown changes nothing when the cursor is -1; from cursor 0 it sets the
\* cursor to -1 and the input to the snapshot; from a cursor i > 0 it sets the
\* cursor to i-1 and shows the entry there.  The snapshot is the input of the moment
\* browsing started: the ArrowUp that leaves -1 stores the input, and no step
\* changes the snapshot while the cursor stays on an entry.
C20_RecallNext ==
    /\ [] /\ historyIndex = -1 => arrowDown(KeyState) = KeyState
          /\ historyIndex = 0 =>
                /\ arrowDown(KeyState).historyIndex = -1
                /\ arrowDown(KeyState).input = tempInput
          /\ historyIndex > 0 =>
                /\ arrowDown(KeyState).historyIndex = historyIndex - 1
                /\ arrowDown(KeyState).input = Recent(historyIndex)
    /\ [][ /\ (historyIndex = -1 /\ historyIndex' >= 0) => tempInput' = input
           /\ (historyIndex >= 0 /\ historyIndex' >= 0) => tempInput' = tempInput ]_vars

\* ArrowDown from the most recent entry has brought back the line typed before
\* browsing
C20_Witness ==
    /\ historyIndex = -1
    /\ Len(commandHistory) >= 1
    /\ tempInput \in KeyLines
    /\ input = tempInput
    /\ \A i \in Calls : subs[i].pc = "done"

(* ---- C21 ---- *)
\* the command-type line of a call, with the labels of the state it was submitted in
LineOf(call) ==
    [type |-> "command", text |-> call.cmd,
     meta |-> [dir |-> getDisplayPath(call.dir), branch |-> call.branch]]

\* the calls that act in a step: the one an Enter starts, and those that go on
Acting == {i \in DOMAIN subs' : (i > Len(subs)) \/ Moves(i)}

\* C21: a call keeps the currentDir and gitBranch of the state its line was
\* submitted in; every command-type line a step appends is the line of a call
\* acting in that step and carries those two labels (for cd, jump and ordinary
\* command alike); and a step never alters a line already in the transcript (it
\* appends, or `clear` empties the transcript).
C21_LinesCarrySubmissionLabels ==
    [][ /\ Submitted => (NewCall.dir = currentDir /\ NewCall.branch = gitBranch)
        /\ \A i \in Calls : subs'[i].dir = subs[i].dir /\ subs'[i].branch = subs[i].branch
        /\ Appends \/ output' = <<>>
        /\ Appends =>
             \A k \in 1..Len(Appended) :
                 Appended[k].type = "command" =>
                     \E i \in Acting : Appended[k] = LineOf(subs'[i]) ]_vars

\* a jump typed in the home directory has gone to src; its line shows the home
\* directory
C21_Witness ==
    /\ currentDir = PathStr(HomeNames \o <<n_src>>)
    /\ \E i \in Calls :
          /\ subs[i].kind = "jump" /\ subs[i].pc = "done" /\ subs[i].dir = HomeDir
          /\ subs[i].newDir = currentDir
          /\ \E k \in 1..Len(output) :
                /\ output[k].type = "command"
                /\ output[k].text = l_src
                /\ output[k].meta.dir = getDisplayPath(HomeDir)
                /\ output[k].meta.dir # getDisplayPath(currentDir)

(* ---- C22 ---- *)
\* the branch queries among the requests of a call
BranchQueries(call) == SelectSeq(call.reqs, LAMBDA q : q.run = s_git_branch)

\* call i receives the answer to its branch query
BranchAnswered(i) == subs[i].pc \in {"cdBranch", "jumpBranch"} /\ Moves(i)

\* C22: the step that commits a navigation (cd or jump) issues one request, the
\* branch query in the new currentDir; a call issues no branch query in any other
\* step; the step in which the query is answered issues nothing, finishes the
\* call with exactly one branch query among its requests and leaves currentDir
\* and previousDir as committed; and when the answer is a failure, that step
\* sets gitBranch to the empty string and appends no error-type line.
C22_OneSilentBranchQuery ==
    [][ \A i \in Calls :
          /\ Commits(i) =>
                subs'[i].reqs = Append(subs[i].reqs, Request(<<currentDir'>>, s_git_branch))
          /\ (Moves(i) /\ ~Commits(i)) => BranchQueries(subs'[i]) = BranchQueries(subs[i])
          /\ BranchAnswered(i) =>
                /\ subs'[i].pc = "done"
                /\ subs'[i].reqs = subs[i].reqs
                /\ Len(BranchQueries(subs'[i])) = 1
                /\ currentDir' = currentDir /\ previousDir' = previousDir
                /\ ~GitResponse(fs, LastReq(subs[i])).ok =>
                      /\ gitBranch' = <<>>
                      /\ Appends /\ ErrorCount(Appended) = 0 ]_vars

\* a cd from the work tree (label main) to /tmp has finished: its branch query
\* failed, the label is empty, /tmp stays committed and no error line was added
C22_Witness ==
    \E i \in Calls :
        /\ subs[i].pc = "done" /\ subs[i].newDir = PathStr(<<n_tmp>>)
        /\ subs[i].branch = GitBranchName
        /\ ~GitResponse(fs, LastReq(subs[i])).ok
        /\ currentDir = subs[i].newDir /\ previousDir = subs[i].dir
        /\ gitBranch = <<>>
        /\ ErrorCount(output) = 0

(* ---- C23 ---- *)
\* call i sends the request of an ordinary command
SendsRun(i) == subs'[i].pc = "run" /\ (i > Len(subs) \/ subs[i].pc # "run")

\* C23 (as claimed): the request of every ordinary command changes into the
\* currentDir of its submission before it runs the line.
C23_AlwaysPrefixed ==
    \A i \in Calls : subs[i].pc = "run" => LastReq(subs[i]).cds = <<subs[i].dir>>

\* C23 (amended): the request of an ordinary command runs the alias-expanded
\* line; it first changes into the currentDir of the submission when that is not
\* empty, and has no directory change in front when currentDir is empty.
C23_PrefixedUnlessEmpty ==
    [][ \A i \in DOMAIN subs' :
          SendsRun(i) =>
             /\ subs'[i].dir = currentDir
             /\ LastReq(subs'[i]).run = expandAlias(trim(subs'[i].cmd))
             /\ currentDir # <<>> => LastReq(subs'[i]).cds = <<currentDir>>
             /\ currentDir = <<>> => LastReq(subs'[i]).cds = <<>> ]_vars

\* initDir has failed, currentDir is empty, and `ll /tmp` was sent as the bare
\* `ls -la /tmp`
C23_Witness ==
    /\ init.pc = "done" /\ currentDir = <<>>
    /\ \E i \in Calls :
          /\ subs[i].cmd = l_ll_tmp
          /\ subs[i].kind = "run"
          /\ LastReq(subs[i]) = Request(<<>>, expandAlias(l_ll_tmp))
          /\ expandAlias(l_ll_tmp) # l_ll_tmp

(* ---- C24 ---- *)
\* the change-and-report requests that are answered in a step
AnsweredProbes ==
    (IF init.pc = "resolve" /\ init'.pc # "resolve" THEN {LastReq(init)} ELSE {})
      \cup {LastReq(subs[i]) : i \in {j \in Calls : subs[j].pc \in {"cdResolve", "jumpResolve"}
                                                     /\ Moves(j)}}

\* the directory the machine is in after the directory changes of a request
Reported(req) == ShellCdChain(fs, ProcessCwd, req.cds)

\* a step gives currentDir no value but the path the machine reports for a
\* request answered in that step
CurrentDirIsReported ==
    currentDir' # currentDir =>
        \E req \in AnsweredProbes :
            /\ req.run = s_pwd
            /\ Reported(req).ok
            /\ currentDir' = PathStr(Reported(req).dir)

\* the values currentDir has held up to now: the empty string, the values calls
\* were submitted in, the values calls have committed, and the present one
Held ==
    {<<>>, currentDir} \cup {subs[i].dir : i \in Calls} \cup {subs[i].newDir : i \in Calls}

\* initDir is answered in this step
InitAnswered == init.pc = "resolve" /\ init'.pc # "resolve"

\* C24 (as claimed): currentDir changes only to the path reported for a successful
\* change-and-report request, and previousDir changes only to a value currentDir
\* has held before the change.
C24_PreviousHeldEarlier ==
    [][ /\ CurrentDirIsReported
        /\ previousDir' # previousDir => previousDir' \in Held ]_vars

\* C24 (amended): currentDir is empty or a directory of the machine, and changes
\* only to the path reported for a successful change-and-report request;
\* previousDir changes only to a value currentDir has held before the change or,
\* when initDir is answered, to the home directory that the same step makes
\* currentDir.
C24_VerifiedResolution ==
    /\ [](currentDir = <<>> \/ \E d \in fs : currentDir = PathStr(d))
    /\ [][ /\ CurrentDirIsReported
           /\ previousDir' # previousDir =>
                 \/ previousDir' \in Held
                 \/ InitAnswered /\ previousDir' = currentDir' ]_vars

\* `cd src`, a relative target, has finished: currentDir is the path the machine
\* reported and previousDir the home directory it was typed in
C24_Witness ==
    \E i \in Calls :
        /\ subs[i].kind = "cd" /\ subs[i].targetDir = l_src /\ subs[i].pc = "done"
        /\ subs[i].dir = HomeDir
        /\ currentDir = PathStr(HomeNames \o <<n_src>>)
        /\ currentDir = PathStr(Reported(subs[i].reqs[1]).dir)
        /\ previousDir = HomeDir

(* ---- C25 ---- *)
\* call i receives the answer to its ordinary command, and the answer is a failure
RunFails(i) ==
    /\ subs[i].pc = "run" /\ Moves(i)
    /\ Len(commandLogs') = Len(commandLogs) + 1
    /\ ~commandLogs'[Len(commandLogs')].success

\* C25: the step in which an ordinary command's request is answered with a failure
\* appends exactly one error-type line, whose text is the failure message of the
\* executor as it came, and leaves currentDir, previousDir and gitBranch alone;
\* so does the step that sent the request.
C25_RunFailureOneErrorLine ==
    [][ /\ \A i \in Calls :
              RunFails(i) =>
                 /\ Appends /\ ErrorCount(Appended) = 1
                 /\ \E resp \in RunResponses(fs, LastReq(subs[i])) :
                       ~resp.ok /\ Appended[1] = [type |-> "error", text |-> resp.text]
                 /\ sessionVars' = sessionVars
                 /\ subs'[i].pc = "done" /\ subs'[i].reqs = subs[i].reqs
        /\ \A i \in DOMAIN subs' :
              SendsRun(i) => (sessionVars' = sessionVars /\ Appends /\ ErrorCount(Appended) = 0) ]_vars

\* `ll /tmp` typed in the home directory has failed: one error line with the
\* executor's message, the session still in the home directory
C25_Witness ==
    \E i \in Calls :
        /\ subs[i].cmd = l_ll_tmp /\ subs[i].kind = "run" /\ subs[i].pc = "done"
        /\ subs[i].dir = HomeDir /\ currentDir = HomeDir
        /\ Len(commandLogs) > 0 /\ ~commandLogs[Len(commandLogs)].success
        /\ commandLogs[Len(commandLogs)].command = subs[i].trimmedCmd
        /\ output[Len(output) - 1] = ErrorLine(CommandFailure)
        /\ ErrorCount(output) = 1

(* ---- C30 ---- *)
\* C30: when previousDir is empty, the Enter of `cd -` (or of `-`, its shortcut)
\* appends exactly one error-type line, `cd: OLDPWD not set`, after the command
\* line, sends no request (the call is finished at once) and leaves currentDir,
\* previousDir and gitBranch as they were.
C30_CdDashWithoutPrevious ==
    [][ (Submitted /\ previousDir = <<>> /\ trim(NewCall.cmd) \in {l_cd_dash, s_dash}) =>
           /\ Appends /\ ErrorCount(Appended) = 1
           /\ Appended[Len(Appended)] = [type |-> "error", text |-> s_oldpwd_not_set]
           /\ NewCall.reqs = <<>> /\ NewCall.pc = "done"
           /\ sessionVars' = sessionVars ]_vars

\* initDir has failed, previousDir is empty, and `cd -` has been answered with the
\* error line without any request
C30_Witness ==
    /\ init.pc = "done" /\ previousDir = <<>> /\ currentDir = <<>>
    /\ \E i \in Calls :
          /\ subs[i].cmd = l_cd_dash /\ subs[i].prev = <<>>
          /\ subs[i].pc = "done" /\ subs[i].reqs = <<>>
    /\ Len(output) >= 2
    /\ output[Len(output)] = ErrorLine(s_oldpwd_not_set)
    /\ output[Len(output) - 1].type = "command"

(* ---- C29 ---- *)
\* C29: from a state whose input is empty or white space only, no step starts an
\* executeCommand call, and the Enter key changes nothing: not the history, its
\* cursor or the snapshotted buffer, not the transcript, the logs or the stored
\* lists, not the requests of any call, not currentDir, previousDir or gitBranch.
C29_BlankEnterChangesNothing ==
    [][ trim(input) = <<>> =>
           /\ ~Submitted
           /\ Enter(MaxKeySubmit) =>
                 /\ historyVars' = historyVars
                 /\ output' = output /\ commandLogs' = commandLogs /\ storage' = storage
                 /\ subs' = subs /\ init' = init
                 /\ sessionVars' = sessionVars
                 /\ input' = input ]_vars

\* white space only is in the input, with a non-empty history, a snapshotted
\* buffer and nothing outstanding: the Enter key can be pressed
C29_Witness ==
    /\ input = l_blank
    /\ commandHistory # <<>> /\ tempInput # <<>>
    /\ Idle /\ Len(subs) < MaxKeySubmit

(* ---- C26 ---- *)
\* the application is started again in this step
Restarts == run' = run + 1

\* the render with the loaded lists happens in this step
Loads == init.pc = "load" /\ init'.pc # "load"

\* C26: when the application is started again, what the loading effect parses
\* from localStorage is the commandHistory of the moment it was closed (same
\* entries, same order), and the first render, whose commandHistory is empty,
\* leaves a stored non-empty history as it is; the next render has the loaded
\* history in memory and in localStorage.
C26_HistoryRoundTrip ==
    [][ /\ Restarts =>
              /\ init'.savedHistory = commandHistory
              /\ commandHistory' = <<>>
              /\ commandHistory # <<>> =>
                    (hasItem(storage', k_history) /\ storage'[k_history] = commandHistory)
        /\ Loads =>
              /\ commandHistory' = init.savedHistory
              /\ commandHistory' # <<>> =>
                    (hasItem(storage', k_history) /\ storage'[k_history] = commandHistory') ]_vars

\* the second run has loaded the two commands of the first, the one with a
\* quote and a backslash among them, and has not recorded anything itself
C26_Witness ==
    /\ run = 2 /\ init.pc # "load" /\ subs = <<>>
    /\ commandHistory = <<l_cd_tmp, l_quote>>
    /\ hasItem(storage, k_history) /\ storage[k_history] = commandHistory

(* ---- C27 ---- *)
\* C27 (as claimed): the transcript lines present when the application is closed
\* are present, in the same order, when it has been started again.
C27_TranscriptSurvivesRestart ==
    [][ Restarts => (Len(output') >= Len(output) /\ SubSeq(output', 1, Len(output)) = output) ]_vars

\* C27 (amended): localStorage holds nothing but the command history and the
\* command logs; when the application is started again the transcript is empty,
\* and stays empty in the render with the loaded lists; what is loaded besides
\* the history is the last LogStoreCap records of commandLogs of the moment the
\* application was closed, which the first render, whose commandLogs is empty,
\* leaves stored as they are.
C27_OnlyLogsAndHistoryPersist ==
    /\ [](DOMAIN storage \subseteq {k_history, k_logs})
    /\ [][ /\ Restarts =>
                 /\ output' = <<>>
                 /\ init'.savedLogs = lastN(commandLogs, LogStoreCap)
                 /\ commandLogs # <<>> =>
                       (hasItem(storage', k_logs) /\ storage'[k_logs] = init'.savedLogs)
           /\ Loads =>
                 /\ output' = <<>>
                 /\ commandLogs' = init.savedLogs ]_vars

\* the second run has started after a first one whose transcript had lines: its
\* transcript is empty, its commandLogs are the two records of the first run
C27_Witness ==
    /\ run = 2 /\ init.pc # "load" /\ subs = <<>>
    /\ output = <<>>
    /\ Len(commandLogs) = 2
    /\ commandLogs[1].command = l_cd_tmp /\ commandLogs[1].success
    /\ commandLogs[2].command = l_quote /\ ~commandLogs[2].success
    /\ storage[k_logs] = commandLogs

(* ---- C28 ---- *)
\* what initDir makes of the machine: the home directory, or nothing when the
\* machine has none
StartDir == IF HomeNames \in fs THEN HomeDir ELSE <<>>

\* C28: a start of the application sets currentDir, previousDir and gitBranch to
\* the empty string and sends `cd ~ && pwd`; the render with the loaded lists
\* leaves the three alone; a successful answer to initDir makes currentDir the
\* home directory the machine reports; and whenever initDir has finished and no
\* command was submitted in this run, the three values are those of the machine's
\* home directory, whatever localStorage holds and wherever the run before ended.
C28_SessionStartsAtHome ==
    /\ []((init.pc = "done" /\ subs = <<>>) =>
             /\ currentDir = StartDir /\ previousDir = StartDir
             /\ gitBranch = (IF StartDir = <<>> THEN <<>> ELSE LabelOf(StartDir)))
    /\ [][ /\ Restarts =>
                 /\ currentDir' = <<>> /\ previousDir' = <<>> /\ gitBranch' = <<>>
                 /\ init'.reqs = <<Request(<<s_HOME>>, s_pwd)>>
           /\ Loads => sessionVars' = sessionVars
           /\ (InitAnswered /\ PwdResponse(fs, LastReq(init)).ok) =>
                 currentDir' = HomeDir ]_vars

\* the first run ended in /tmp (its last log record was made there); the second
\* run has finished initDir and is in the home directory
C28_Witness ==
    /\ run = 2 /\ init.pc = "done" /\ subs = <<>>
    /\ currentDir = HomeDir
    /\ Len(commandLogs) = 2
    /\ commandLogs[1].command = l_cd_tmp /\ commandLogs[1].success
    /\ commandLogs[2].directory = PathStr(<<n_tmp>>)
    /\ hasItem(storage, k_logs)

(* ---- C31 ---- *)
\* no request occurs twice among the requests of a call
NoRepeat(reqs) == \A j, k \in 1..Len(reqs) : j # k => reqs[j] # reqs[k]

\* the requests a call may have issued, by the kind of its line: a cd issues its
\* resolution request and, once committed, the branch query; a bare word issues
\* its probe and then either the branch query (the probe found a directory) or
\* the execution of the line (it did not); an ordinary command issues its
\* execution; a built-in issues nothing
RequestShape(call) ==
    LET r == call.reqs
    IN CASE call.kind = "cd" ->
              /\ Len(r) <= 2
              /\ Len(r) >= 1 => r[1].run = s_pwd
              /\ Len(r) = 2 => (r[2] = Request(<<call.newDir>>, s_git_branch) /\ call.newDir # <<>>)
         [] call.kind = "jump" ->
              /\ Len(r) \in {1, 2}
              /\ r[1].run = s_pwd /\ r[1].cds[Len(r[1].cds)] = call.trimmedCmd
              /\ Len(r) = 2 =>
                    \/ r[2] = Request(<<call.newDir>>, s_git_branch) /\ call.newDir # <<>>
                    \/ /\ r[2].run = call.trimmedCmd /\ call.newDir = <<>>
                       /\ ~PwdResponse(fs, r[1]).ok
         [] call.kind = "run" -> Len(r) = 1 /\ r[1].run = call.trimmedCmd
         [] OTHER -> r = <<>>

\* C31: in every reachable state the requests of every call have the shape of
\* its kind (one resolution request for a cd, one probe and at most one
\* execution for a bare word, one execution for an ordinary command) and none
\* occurs twice; a step adds at most one request to a call, adds none to a cd
\* whose request has failed, and appends at most one error-type line, with
\* which the call is finished.
C31_EveryRequestOnce ==
    /\ [](\A i \in Calls : RequestShape(subs[i]) /\ NoRepeat(subs[i].reqs))
    /\ [][ /\ Appends => ErrorCount(Appended) <= 1
           /\ \A i \in Calls :
                 Moves(i) =>
                    /\ Len(subs'[i].reqs) <= Len(subs[i].reqs) + 1
                    /\ SubSeq(subs'[i].reqs, 1, Len(subs[i].reqs)) = subs[i].reqs
                    /\ (Appends /\ ErrorCount(Appended) = 1) =>
                          (subs'[i].pc = "done" /\ subs'[i].reqs = subs[i].reqs)
           /\ (Submitted /\ Appends /\ ErrorCount(Appended) = 1) =>
                 (NewCall.pc = "done" /\ NewCall.reqs = <<>>) ]_vars

\* a bare word that is no directory has been probed once and executed once, and
\* its execution has failed: two requests, one error line, the call finished
C31_Witness ==
    \E i \in Calls :
        /\ subs[i].kind = "jump" /\ subs[i].pc = "done"
        /\ Len(subs[i].reqs) = 2
        /\ ~PwdResponse(fs, subs[i].reqs[1]).ok
        /\ subs[i].reqs[2].run = subs[i].trimmedCmd
        /\ ErrorCount(output) = 1
        /\ output[Len(output) - 1] = ErrorLine(CommandFailure)

(* ---- C32 ---- *)
\* C32: the Enter of a line that is not blank starts a call, and the step that
\* starts a call (before any of its requests is answered) makes the trimmed typed
\* line, not its alias expansion, the newest history entry, sets the cursor to -1
\* and empties the snapshotted buffer; this is so for cd, built-in, bare word
\* and ordinary command alike, and no later step of a call changes the history.
C32_TypedLineRecordedAtSubmission ==
    [][ /\ (Enter(MaxKeySubmit) /\ trim(input) # <<>>) => Submitted
        /\ Submitted =>
              /\ NewCall.cmd = input
              /\ commandHistory' # <<>>
              /\ commandHistory'[Len(commandHistory')] = trim(input)
              /\ historyIndex' = -1 /\ tempInput' = <<>>
              /\ \A q \in 1..Len(NewCall.reqs) : NewCall.pc # "done"
        /\ \A i \in Calls : Moves(i) => commandHistory' = commandHistory ]_vars

\* `c` was submitted on a stored history: it ran as `clear`, and the history
\* ends with `c`
C32_Witness ==
    /\ Len(subs) = 1
    /\ subs[1].cmd = l_c /\ subs[1].trimmedCmd = s_clear
    /\ Len(commandHistory) = 4
    /\ commandHistory[4] = l_c
    /\ historyIndex = -1 /\ tempInput = <<>>

(* ---- C33 ---- *)
\* the lines that clear the screen
ClearLines == {s_clear, l_c, l_cls}

KindOf(line) ==
    LET e == expandAlias(line)
    IN IF startsWith(e, s_cd_sp) \/ e = s_cd THEN "cd"
       ELSE IF e \in {s_clear, s_stats, s_performance, s_export_logs, s_export_dash_logs, s_history}
               \/ startsWith(e, s_logs)
       THEN "builtin"
       ELSE IF isDirPatternMatch(e) THEN "jump"
       ELSE "run"

\* the names of the built-ins that are one word
BuiltinNames == {s_clear, s_stats, s_performance, s_logs, s_export_dash_logs, s_history}

\* a typed line that is one word and an alias key or a built-in name
IsShortcutOrBuiltin(line) ==
    /\ \A k \in 1..Len(line) : line[k] # " "
    /\ line \in DOMAIN aliases \/ line \in BuiltinNames

\* the alias keys whose text is a cd, and those whose text is one word that is
\* no built-in
CdShortcuts == {k \in DOMAIN aliases : startsWith(aliases[k], s_cd_sp)}
WordShortcuts == {k \in DOMAIN aliases : isDirPatternMatch(aliases[k]) /\ aliases[k] # s_clear}

\* C34 (as claimed, its consequence): a call whose typed line is one word and an
\* alias key or a built-in name is neither an explicit cd nor a probe of a
\* directory.
C34_ShortcutsNeverNavigate ==
    \A i \in Calls :
        IsShortcutOrBuiltin(trim(subs[i].cmd)) => subs[i].kind \notin {"cd", "jump"}

\* C34 (amended): the branch a submitted line takes is the one of the claimed
\* precedence; a built-in issues no request and leaves currentDir, previousDir
\* and gitBranch alone; a one-word alias key or built-in name is probed under
\* its own name in no case; the alias keys of a cd (`..`, `...`, `....`, `~`,
\* `-`) take the cd branch, the alias keys of a one-word command (`md`, `rd`)
\* have the word they stand for probed as a directory, and every other one-word
\* alias key or built-in name issues no change-and-report request at all.
C34_ClassificationPrecedence ==
    /\ [](\A i \in Calls :
             LET typed == trim(subs[i].cmd)
             IN /\ subs[i].kind = KindOf(typed)
                /\ IsShortcutOrBuiltin(typed) =>
                      /\ subs[i].kind = "jump" =>
                            subs[i].reqs[1].cds[Len(subs[i].reqs[1].cds)] # typed
                      /\ typed \in CdShortcuts => subs[i].kind = "cd"
                      /\ typed \in WordShortcuts =>
                            /\ subs[i].kind = "jump"
                            /\ subs[i].reqs[1].cds[Len(subs[i].reqs[1].cds)] = aliases[typed]
                      /\ typed \notin (CdShortcuts \cup WordShortcuts) =>
                            /\ subs[i].kind \in {"builtin", "run"}
                            /\ \A q \in 1..Len(subs[i].reqs) : subs[i].reqs[q].run # s_pwd
                            /\ subs[i].newDir = <<>>)
    /\ [][ (Submitted /\ NewCall.kind = "builtin") =>
              (NewCall.reqs = <<>> /\ NewCall.pc = "done" /\ sessionVars' = sessionVars) ]_vars

\* `logs` was submitted in ~/src, where the machine has a directory `logs`: it
\* ran as the built-in, and the session is still in ~/src
C34_Witness ==
    /\ (HomeNames \o <<n_src, n_logs>>) \in fs
    /\ currentDir = PathStr(HomeNames \o <<n_src>>)
    /\ \E i \in Calls :
          /\ subs[i].cmd = s_logs /\ subs[i].dir = currentDir
          /\ subs[i].kind = "builtin" /\ subs[i].pc = "done" /\ subs[i].reqs = <<>>

(* ---- C35 ---- *)
\* C35 (as claimed): when initDir is answered after the navigation of a call
\* has committed, the answer resets neither currentDir nor previousDir.
C35_InitKeepsUserNavigation ==
    [][ (InitAnswered /\ \E i \in Calls : subs[i].newDir # <<>>) =>
            (currentDir' = currentDir /\ previousDir' = previousDir) ]_vars

(* ---- C36 ---- *)
\* a request a call has issued is not answered yet
Outstanding == \E i \in Calls : subs[i].pc # "done"

\* C36 (as claimed): isLoading is true exactly in the states in which a request
\* issued by a submission is outstanding.
C36_BusyIffOutstanding == isLoading <=> Outstanding

(* ---- C38 ---- *)
\* C38 (as claimed): while the history cursor is i >= 0, the input buffer is the
\* history entry i steps back from the most recent one.
C38_BrowsingConsistency ==
    historyIndex >= 0 => input = historyAt(commandHistory, historyIndex)

(* ---- C39 ---- *)
\* C39 (as claimed): when the input buffer holds a text other than the line of
\* an outstanding call (it was typed or recalled after the submission), the
\* step in which that call's command or probe is answered leaves the input
\* buffer as it is.
C39_CompletionKeepsInput ==
    [][ \A i \in Calls :
            (/\ Moves(i) /\ subs[i].pc \in {"jumpResolve", "run"}
             /\ input # <<>> /\ input # subs[i].cmd) => input' = input ]_vars

(* ---- C40 ---- *)
\* the session once initDir has run to its end, nothing else having happened
SeqStart ==
    LET resp == PwdResponse(fs, GoHomeRequest)
        cleanDir == stripAnsi(trim(resp.text))
    IN IF resp.ok
       THEN [dir |-> cleanDir, prev |-> initialPreviousDir(cleanDir),
             branch |-> branchLabelOf(GitResponse(fs, GitBranchRequest(cleanDir)))]
       ELSE [dir |-> <<>>, prev |-> <<>>, branch |-> <<>>]

\* the session a navigation leaves when its request is made in session st
SeqNavigate(st, req) ==
    LET resp == PwdResponse(fs, req)
        newDir == resolvedDir(resp)
    IN IF resp.ok
       THEN [dir |-> newDir, prev |-> st.dir,
             branch |-> branchLabelOf(GitResponse(fs, GitBranchRequest(newDir)))]
       ELSE st

\* the session after the line of a call was processed to its end in session st
SeqStep(st, call) ==
    IF call.kind = "cd"
    THEN LET targetDir == cdTargetDir(call.trimmedCmd)
         IN IF targetDir = s_dash /\ ~hasPreviousDir(st.prev) THEN st
            ELSE SeqNavigate(st, cdTestCmd(targetDir, st.dir, st.prev))
    ELSE IF call.kind = "jump"
    THEN SeqNavigate(st, jumpTestCmd(call.trimmedCmd, st.dir))
    ELSE st

\* the session after the first k submitted lines were processed one at a time
RECURSIVE SeqState(_)
SeqState(k) == IF k = 0 THEN SeqStart ELSE SeqStep(SeqState(k - 1), subs[k])

\* the request of call i that ran its line as an ordinary command
RunRequests(i) ==
    IF subs[i].kind = "run" /\ Len(subs[i].reqs) >= 1 THEN {subs[i].reqs[1]}
    ELSE IF subs[i].kind = "jump" /\ subs[i].newDir = <<>> /\ Len(subs[i].reqs) >= 2
    THEN {subs[i].reqs[2]}
    ELSE {}

\* C40 (as claimed): once every request is answered, currentDir, previousDir and
\* gitBranch are those of processing the submitted lines one at a time, and
\* every ordinary command was sent for the directory that processing gives at
\* its position.
C40_SequentialEquivalence ==
    Idle =>
        /\ sessionVars = <<SeqState(Len(subs)).dir, SeqState(Len(subs)).prev,
                           SeqState(Len(subs)).branch>>
        /\ \A i \in Calls : \A r \in RunRequests(i) :
              r = fullCmd(subs[i].trimmedCmd, SeqState(i - 1).dir)

(* ---- C37 ---- *)
\* call i has run to its end
Finished(i) == i \in Calls /\ subs[i].pc = "done"

\* the user can submit the text in the input buffer
Accepting == ENABLED (Enter(MaxLiveSubmit) /\ Submitted)

\* C37: when every request is answered at some time, every submitted line runs
\* to its end, a raised busy flag is lowered again, and as long as the explored
\* number of submissions is not used up a non-blank input can be submitted in
\* every state, whatever failed before.
C37_EverySubmissionFinishes ==
    /\ \A i \in 1..MaxLiveSubmit : (i \in Calls) ~> Finished(i)
    /\ isLoading ~> ~isLoading
    /\ []((Len(subs) < MaxLiveSubmit /\ ~isBlank(input)) => Accepting)

\* a navigation failed, and the ordinary command submitted after it has run to
\* its end with the busy flag lowered
C37_Witness ==
    /\ Len(subs) = 2 /\ Finished(1) /\ Finished(2)
    /\ subs[1].kind = "cd" /\ subs[1].newDir = <<>>
    /\ Len(commandLogs) = 2 /\ ~commandLogs[1].success
    /\ subs[2].kind = "jump" /\ Len(subs[2].reqs) = 2 /\ subs[2].reqs[2].run = subs[2].trimmedCmd
    /\ ~isLoading
====
